---- MODULE Spec2Model ----
(***************************************************************************)
(* The four tutorial notebooks of the synthetic-data lab, run top to       *)
(* bottom by a notebook kernel against the saved_models directory.         *)
(*                                                                         *)
(* A notebook is a sequence of statements (instructions).  The kernel      *)
(* holds the Python namespace, the position in the notebook and the log of *)
(* the generator operations it performed; the file system holds the cache  *)
(* files.  Calls into synthcity, pandas, sklearn and xgboost are opaque:   *)
(* each takes an input `ok` saying whether the call returned or raised.    *)
(***************************************************************************)
EXTENDS Integers, Sequences, FiniteSets, TLC

VARIABLES
  kernel,       \* the running notebook: nb, pc, status, error, ns, iters, stage, cell, log
  fs,           \* saved_models/: cache file name -> the generator pickled in it
  dataVersion,  \* which content the dataset files currently have
  runs,         \* number of notebook runs started so far
  clean,        \* history: no cache file was removed and no step failed so far
  fits,         \* history, kept while clean: <<nb, cell, plugin name>> -> fit() calls that returned
  completed,    \* history, kept while clean: the notebooks that ran to their end
  kernelS,      \* the second run of a pair of runs (used by SpecPair only)
  fsS,          \* the file system of the second run of a pair
  ci,           \* the job of the Tutorials workflow (used by SpecCI only)
  frame,        \* the data frames of a data-preparation cell (used by SpecFrames only)
  unsaved       \* history: the cache files whose fit failed and whose cell has not run since

vars == <<kernel, fs, dataVersion, runs, clean, fits, completed, kernelS, fsS, ci, frame, unsaved>>

----------------------------------------------------------------------------
(* Bounds of the model *)

MaxRuns == 2          \* notebook runs in one behaviour
MaxDataVersion == 2   \* distinct contents of the dataset files
MaxScore == 2         \* metric scores range over 0..MaxScore
MaxRows == 2          \* records in a dataset given to a data-preparation cell
MaxRegionRows == 3    \* records in the dataset that is split by region
MaxGenerated == 2     \* records a generator returns

----------------------------------------------------------------------------
(* Python values *)

NoStage == "none"
Notebooks == 1..4

\* an empty dict / an empty keyword-argument list
Empty == [x \in {} |-> 0]

\* name = value in a namespace or dict
Bind(d, n, v) == [x \in (DOMAIN d) \cup {n} |-> IF x = n THEN v ELSE d[x]]

Bound(d, names) == names \subseteq DOMAIN d

----------------------------------------------------------------------------
(* Cache file names.  An f-string is the sequence of its pieces: literal   *)
(* text and the str() of each interpolated value.                          *)

\* str(int)
Str(n) == ToString(n)

\* Case Study 2, cell bc3f6a7a
FormatCtgan(ns) ==
  <<ns.prefix, "_", ns.model, "_numericalised", "_rnd=", Str(ns.random_state), ".bkp">>

\* the decaf file name without the seed
FormatDecaf_NoSeed(ns) ==
  <<ns.prefix, "_", ns.model, "_n_iter=", Str(ns.n_iter), ".bkp">>

\* Case Study 2, cell 08a73c76
FormatDecaf(ns) ==
  <<ns.prefix, "_", ns.model, "_n_iter=", Str(ns.n_iter), "_rnd=", Str(ns.random_state), ".bkp">>

\* Case Study 3, cells 1a4df9e4, 26b938f8, 2acd1810
FormatPrivacy(ns) ==
  <<ns.prefix, ".", ns.model, "_numericalised", "_n_iter=", Str(ns.n_iter),
    "_rnd=", Str(ns.random_state), ".bkp">>

\* Case Study 4, cell 7.2
FormatRadialgan(ns) ==
  <<ns.prefix, ".", ns.model, "_numericalised", "_", ns.region_mapper[ns.our_region_index],
    "_n_iter=", Str(ns.n_iter), "_rnd=", Str(ns.random_state), "_final.bkp">>

\* the variables an f-string reads
FormatReads(fmt) ==
  CASE fmt = "ctgan" -> {"prefix", "model", "random_state"}
    [] fmt = "decaf" -> {"prefix", "model", "n_iter", "random_state"}
    [] fmt = "privacy" -> {"prefix", "model", "n_iter", "random_state"}
    [] fmt = "radialgan" -> {"prefix", "model", "n_iter", "random_state",
                             "region_mapper", "our_region_index"}

Format(fmt, ns) ==
  CASE fmt = "ctgan" -> FormatCtgan(ns)
    [] fmt = "decaf" -> FormatDecaf(ns)
    [] fmt = "privacy" -> FormatPrivacy(ns)
    [] fmt = "radialgan" -> FormatRadialgan(ns)

----------------------------------------------------------------------------
(* Statements *)

NoArg == [none |-> TRUE]

Ins(op, cell, line, stage, a) ==
  [op |-> op, cell |-> cell, line |-> line, stage |-> stage, jmp |-> 1, a |-> a]

\* the same statement, followed by a jump of off statements
Jmp(ins, off) == [ins EXCEPT !.jmp = off]

\* Plugins().get(name, **kwargs): the plugin name is a literal (nameVar = "")
\* or read from a variable; kw are the keyword arguments passed from the
\* variables of the same name, lit the keyword arguments passed as literals
Get(nameVar, nameLit, kw, lit) ==
  [nameVar |-> nameVar, nameLit |-> nameLit, kw |-> kw, lit |-> lit]

----------------------------------------------------------------------------
(* The notebooks.  Ins(op, cell, line, stage, a): the statement kind, the  *)
(* ordinal of its code cell, its line in the .ipynb file, the pipeline     *)
(* stage it belongs to and its arguments.                                  *)

Kind(k) == [kind |-> k]

\* the cell without its fit() call
FitAndGenerate_NoFit(cell, line, plugin, lit) ==
  << Ins("create", cell, line, "fit", Get("", plugin, {}, lit)),
     Ins("generate", cell, line + 2, "generate", NoArg) >>

\* syn_model = Plugins().get(...); syn_model.fit(loader); syn_model.generate(...)
FitAndGenerate(cell, line, plugin, lit) ==
  << Ins("create", cell, line, "fit", Get("", plugin, {}, lit)),
     Ins("fit", cell, line + 1, "fit", NoArg),
     Ins("generate", cell, line + 2, "generate", NoArg) >>

\* Case Study 1 - Data Modality
Notebook1 ==
  << Ins("setup", 1, 85, NoStage, NoArg),
     Ins("read_data", 2, 130, "load", NoArg),
     Ins("loader", 3, 151, "configure", NoArg),
     Ins("display", 4, 174, NoStage, NoArg) >>
  \o FitAndGenerate(5, 193, "marginal_distributions", Empty)
  \o << Ins("read_data", 6, 219, "load", NoArg),
        Ins("loader", 7, 241, "configure", NoArg) >>
  \o FitAndGenerate(8, 265, "marginal_distributions", Empty)
  \o << Ins("setup", 9, 290, NoStage, NoArg),
        Ins("read_data", 10, 309, "load", NoArg),
        Ins("loader", 11, 343, "configure", NoArg) >>
  \o FitAndGenerate(12, 368, "timegan", [n_iter |-> 1])
  \o << Ins("read_data", 13, 394, "load", NoArg),
        Ins("loader", 14, 413, "configure", NoArg) >>
  \o FitAndGenerate(15, 439, "timegan", [n_iter |-> 1])
  \o << Ins("read_data", 16, 465, "load", NoArg),
        Ins("loader", 17, 502, "configure", NoArg) >>
  \o FitAndGenerate(18, 529, "timegan", [n_iter |-> 1])

\* the cell with a load branch that fits and saves the loaded generator again
CtganCacheCell_RefitLoaded ==
  << Ins("save_file", 10, 362, NoStage, [fmt |-> "ctgan"]),
     Ins("if_exists", 10, 365, NoStage, [neg |-> FALSE, else |-> 2]),
     Jmp(Ins("load", 10, 366, "fit", NoArg), 2),
     Ins("create", 10, 369, "fit", Get("model", "", {"random_state"}, Empty)),
     Ins("fit", 10, 370, "fit", NoArg),
     Ins("save", 10, 371, "fit", NoArg) >>

\* Case Study 2, cell bc3f6a7a: load the ctgan generator or create, fit and save it
CtganCacheCell ==
  << Ins("save_file", 10, 362, NoStage, [fmt |-> "ctgan"]),
     Ins("if_exists", 10, 365, NoStage, [neg |-> FALSE, else |-> 2]),
     Jmp(Ins("load", 10, 366, "fit", NoArg), 4),
     Ins("create", 10, 369, "fit", Get("model", "", {"random_state"}, Empty)),
     Ins("fit", 10, 370, "fit", NoArg),
     Ins("save", 10, 371, "fit", NoArg) >>

\* the cell without the test for the cache file: the file is written again
DecafCacheCell_Overwrite ==
  << Ins("save_file", 19, 647, NoStage, [fmt |-> "decaf"]),
     Ins("create", 19, 658, "fit",
         Get("", "decaf", {"n_iter", "random_state"}, [struct_learning_enabled |-> TRUE])),
     Ins("get_dag", 19, 659, "fit", NoArg),
     Ins("fit", 19, 660, "fit", NoArg),
     Ins("save", 19, 661, "fit", NoArg),
     Ins("get_dag", 19, 663, "fit", NoArg),
     Ins("display", 19, 664, "plot", NoArg) >>

\* Case Study 2, cell 08a73c76: load the decaf generator or create, fit and save it
DecafCacheCell ==
  << Ins("save_file", 19, 647, NoStage, [fmt |-> "decaf"]),
     Ins("if_exists", 19, 650, NoStage, [neg |-> FALSE, else |-> 4]),
     Ins("load", 19, 651, "fit", NoArg),
     Ins("get_dag", 19, 652, "fit", NoArg),
     Jmp(Ins("display", 19, 654, "plot", NoArg), 7),
     Ins("create", 19, 658, "fit",
         Get("", "decaf", {"n_iter", "random_state"}, [struct_learning_enabled |-> TRUE])),
     Ins("get_dag", 19, 659, "fit", NoArg),
     Ins("fit", 19, 660, "fit", NoArg),
     Ins("save", 19, 661, "fit", NoArg),
     Ins("get_dag", 19, 663, "fit", NoArg),
     Ins("display", 19, 664, "plot", NoArg) >>

\* Case Study 2, cells fd53bdd8 and 3bb660f0: count = 6882
count == 6882

\* Case Study 2 - Fairness
Notebook2 ==
  << Ins("setup", 1, 33, NoStage, NoArg),
     Ins("read_data", 2, 97, "load", NoArg),
     Ins("display", 3, 135, "plot", NoArg),
     Ins("downstream", 4, 165, "train", Kind("split")),
     Ins("downstream", 5, 206, "train", Kind("load")),
     Ins("downstream", 6, 228, "train", Kind("score")),
     Ins("downstream", 6, 232, "train", Kind("score")),
     Ins("display", 7, 256, "plot", NoArg),
     Ins("unique", 7, 265, NoStage,
         [var |-> "ethnicity_idxes", classes |-> 0..4, grows |-> FALSE]),
     Ins("for", 7, 269, NoStage,
         [var |-> "ethnicity_idx", list |-> "ethnicity_idxes", range |-> FALSE, body |-> 1]),
     Jmp(Ins("downstream", 7, 276, "train", Kind("score")), -1),
     Ins("display", 7, 287, "plot", NoArg),
     Ins("loader", 8, 313, "configure", NoArg),
     Ins("assign", 9, 340, NoStage,
         [model |-> "ctgan", prefix |-> "fairness.conditional_augmentation",
          random_state |-> 42]) >>
  \o CtganCacheCell
  \o << Ins("assign", 11, 391, NoStage, [count |-> count]),
        Ins("generate", 11, 393, "generate", NoArg),
        Ins("pandas", 11, 394, "evaluate", Kind("augment")),
        Ins("display", 11, 399, NoStage, NoArg),
        Ins("pandas", 12, 428, "evaluate", Kind("augment")),
        Ins("downstream", 13, 460, "train", Kind("load")),
        Ins("downstream", 14, 480, "train", Kind("score")),
        Ins("display", 15, 503, "plot", NoArg),
        Ins("unique", 15, 513, NoStage,
            [var |-> "ethnicity_idxes", classes |-> 0..4, grows |-> TRUE]),
        Ins("for", 15, 517, NoStage,
            [var |-> "ethnicity_idx", list |-> "ethnicity_idxes", range |-> FALSE, body |-> 1]),
        Jmp(Ins("downstream", 15, 524, "train", Kind("score")), -1),
        Ins("display", 15, 536, "plot", NoArg),
        Ins("read_data", 16, 564, "load", NoArg),
        Ins("loader", 17, 596, "configure", NoArg),
        Ins("assign", 18, 623, NoStage,
            [prefix |-> "fairness.causal_generation", model |-> "decaf", n_iter |-> 101,
             count |-> count, random_state |-> 6]) >>
  \o DecafCacheCell
  \o << Ins("generate", 20, 685, "generate", NoArg),
        Ins("display", 20, 686, NoStage, NoArg),
        Ins("evaluate", 21, 707, "evaluate", [var |-> "demographic_parity_score_gt"]),
        Ins("evaluate", 21, 708, "evaluate", [var |-> "demographic_parity_score_syn"]),
        Ins("downstream", 23, 773, "train", Kind("load")),
        Ins("unique", 23, 782, NoStage,
            [var |-> "ethnicity_idxes", classes |-> {0, 1}, grows |-> FALSE]),
        Ins("for", 23, 786, NoStage,
            [var |-> "ethnicity_idx", list |-> "ethnicity_idxes", range |-> FALSE, body |-> 2]),
        Ins("downstream", 23, 790, "train", Kind("score")),
        Jmp(Ins("pandas", 23, 793, "train", Kind("counts")), -2),
        Ins("display", 23, 808, "plot", NoArg) >>

\* the cell with save_to_file called before fit
PrivacyFitCell_SaveUnfit ==
  << Ins("for", 5, 156, NoStage, [var |-> "model", list |-> "models", range |-> FALSE, body |-> 5]),
     Ins("save_file", 5, 157, NoStage, [fmt |-> "privacy"]),
     Ins("if_exists", 5, 159, NoStage, [neg |-> TRUE, else |-> -2]),
     Ins("create", 5, 161, "fit", Get("model", "", {"random_state"}, Empty)),
     Ins("save", 5, 163, "fit", NoArg),
     Jmp(Ins("fit", 5, 162, "fit", NoArg), -5) >>

\* Case Study 3, cell 1a4df9e4: fit and save every model that has no cache file
PrivacyFitCell ==
  << Ins("for", 5, 156, NoStage, [var |-> "model", list |-> "models", range |-> FALSE, body |-> 5]),
     Ins("save_file", 5, 157, NoStage, [fmt |-> "privacy"]),
     Ins("if_exists", 5, 159, NoStage, [neg |-> TRUE, else |-> -2]),
     Ins("create", 5, 161, "fit", Get("model", "", {"random_state"}, Empty)),
     Ins("fit", 5, 162, "fit", NoArg),
     Jmp(Ins("save", 5, 163, "fit", NoArg), -5) >>

\* Case Study 3, cell 26b938f8: load, sample and evaluate every model
PrivacyEvalCell ==
  << Ins("assign", 6, 184, NoStage, [eval_results |-> Empty]),
     Ins("for", 6, 185, NoStage, [var |-> "model", list |-> "models", range |-> FALSE, body |-> 7]),
     Ins("save_file", 6, 187, NoStage, [fmt |-> "privacy"]),
     Ins("load", 6, 188, "fit", NoArg),
     Ins("generate", 6, 196, "generate", NoArg),
     Ins("evaluate", 6, 197, "evaluate", [var |-> "evaluation"]),
     Ins("pandas", 6, 218, "evaluate", Kind("select")),
     Ins("display", 6, 219, NoStage, NoArg),
     Jmp(Ins("store_eval", 6, 220, "evaluate", NoArg), -7) >>

\* the cell with a feedback loop: after a plot the run goes back to the fit cell
PrivacyPlotCell_Feedback ==
  << Ins("for", 8, 325, NoStage, [var |-> "model", list |-> "models", range |-> FALSE, body |-> 4]),
     Ins("save_file", 8, 327, NoStage, [fmt |-> "privacy"]),
     Ins("if_exists", 8, 328, NoStage, [neg |-> FALSE, else |-> -2]),
     Ins("load", 8, 329, "fit", NoArg),
     Jmp(Ins("display", 8, 330, "plot", NoArg), -20) >>

\* Case Study 3, cell 2acd1810: plot every model that has a cache file
PrivacyPlotCell ==
  << Ins("for", 8, 325, NoStage, [var |-> "model", list |-> "models", range |-> FALSE, body |-> 4]),
     Ins("save_file", 8, 327, NoStage, [fmt |-> "privacy"]),
     Ins("if_exists", 8, 328, NoStage, [neg |-> FALSE, else |-> -2]),
     Ins("load", 8, 329, "fit", NoArg),
     Jmp(Ins("display", 8, 330, "plot", NoArg), -4) >>

\* Case Study 3 - Privacy
Notebook3 ==
  << Ins("setup", 1, 33, NoStage, NoArg),
     Ins("read_data", 2, 79, "load", NoArg),
     Ins("loader", 2, 80, "configure", NoArg),
     Ins("display", 2, 88, NoStage, NoArg),
     Ins("display", 3, 110, NoStage, NoArg),
     Ins("assign", 4, 129, NoStage,
         [outdir |-> "saved_models", prefix |-> "privacy", n_iter |-> 100, random_state |-> 42,
          models |-> <<"dpgan", "adsgan", "pategan">>]) >>
  \o PrivacyFitCell
  \o PrivacyEvalCell
  \o << Ins("highlights", 7, 240, "plot", NoArg) >>
  \o PrivacyPlotCell

\* Case Study 4, cell 3: region index -> region name
RegionMapper ==
  [i \in 0..4 |-> CASE i = 0 -> "Central-West"
                    [] i = 1 -> "North"
                    [] i = 2 -> "North-East"
                    [] i = 3 -> "South"
                    [] i = 4 -> "South-East"]

\* the cell without the test for the cache file: always create, fit and save
RadialganCacheCell_AlwaysFit ==
  << Ins("assign", 13, 443, NoStage,
         [outdir |-> "saved_models", prefix |-> "augmentation", model |-> "radialgan",
          n_iter |-> 100, random_state |-> 7]),
     Ins("save_file", 13, 450, NoStage, [fmt |-> "radialgan"]),
     Ins("create", 13, 456, "fit", Get("model", "", {"n_iter", "random_state"}, Empty)),
     Ins("fit", 13, 457, "fit", NoArg),
     Ins("save", 13, 458, "fit", NoArg) >>

\* Case Study 4, cell 7.2: load the radialgan generator or create, fit and save it
RadialganCacheCell ==
  << Ins("assign", 13, 443, NoStage,
         [outdir |-> "saved_models", prefix |-> "augmentation", model |-> "radialgan",
          n_iter |-> 100, random_state |-> 7]),
     Ins("save_file", 13, 450, NoStage, [fmt |-> "radialgan"]),
     Ins("if_exists", 13, 452, NoStage, [neg |-> FALSE, else |-> 2]),
     Jmp(Ins("load", 13, 453, "fit", NoArg), 4),
     Ins("create", 13, 456, "fit", Get("model", "", {"n_iter", "random_state"}, Empty)),
     Ins("fit", 13, 457, "fit", NoArg),
     Ins("save", 13, 458, "fit", NoArg) >>

\* cell (i): the numbers of records the sweep generates, one pass each
generated_records == <<100, 300, 500, 700, 900, 1000, 2000, 3000, 4000, 5000, 8000, 10000>>

\* Case Study 4, extension cell (i): accuracy against the number of generated records
AugmentationSweepCell ==
  << Ins("assign", 18, 603, NoStage,
         [accuracies |-> <<>>,
          generated_records |-> generated_records,
          repeats |-> 1]),
     Ins("for", 18, 624, NoStage,
         [var |-> "n_gen_records", list |-> "generated_records", range |-> FALSE, body |-> 10]),
     Ins("assign", 18, 625, NoStage, [rep_vals |-> <<>>]),
     Ins("for", 18, 626, NoStage, [var |-> "i", list |-> "repeats", range |-> TRUE, body |-> 7]),
     Ins("generate", 18, 627, "generate", NoArg),
     Ins("pandas", 18, 630, "evaluate", Kind("augment")),
     Ins("downstream", 18, 638, "train", Kind("split")),
     Ins("downstream", 18, 653, "train", Kind("fit")),
     Ins("downstream", 18, 655, "train", Kind("score")),
     Ins("downstream", 18, 656, "train", Kind("score")),
     Jmp(Ins("append", 18, 659, "evaluate",
             [list |-> "rep_vals", item |-> "calculated_accuracy_score_test", calls |-> FALSE]),
         -7),
     Jmp(Ins("append", 18, 660, "evaluate",
             [list |-> "accuracies", item |-> "np.mean(rep_vals)", calls |-> TRUE]),
         -10),
     Ins("display", 18, 662, "plot", NoArg) >>

\* Case Study 4 - Augmentation by Domain Adaptation
Notebook4 ==
  << Ins("setup", 1, 29, NoStage, NoArg),
     Ins("read_data", 2, 80, "load", NoArg),
     Ins("assign", 3, 105, NoStage, [region_mapper |-> RegionMapper]),
     Ins("assign", 4, 128, NoStage, [our_region_index |-> 0]),
     Ins("pandas", 4, 130, "load", Kind("regions")),
     Ins("display", 4, 134, NoStage, NoArg),
     Ins("downstream", 5, 158, "train", Kind("split")),
     Ins("downstream", 6, 199, "train", Kind("load")),
     Ins("downstream", 7, 217, "train", Kind("score")),
     Ins("downstream", 7, 218, "train", Kind("score")),
     Ins("display", 8, 241, "plot", NoArg),
     Ins("downstream", 9, 327, "train", Kind("split")),
     Ins("downstream", 10, 372, "train", Kind("load")),
     Ins("downstream", 11, 389, "train", Kind("score")),
     Ins("downstream", 11, 390, "train", Kind("score")),
     Ins("loader", 12, 419, "configure", NoArg) >>
  \o RadialganCacheCell
  \o << Ins("assign", 14, 477, NoStage, [n_gen_records |-> 500]),
        Ins("generate", 14, 479, "generate", NoArg),
        Ins("pandas", 14, 482, "evaluate", Kind("augment")),
        Ins("display", 14, 486, NoStage, NoArg),
        Ins("downstream", 15, 515, "train", Kind("split")),
        Ins("downstream", 16, 553, "train", Kind("load")),
        Ins("downstream", 17, 571, "train", Kind("score")),
        Ins("downstream", 17, 574, "train", Kind("score")) >>
  \o AugmentationSweepCell

Program(nb) ==
  CASE nb = 1 -> Notebook1
    [] nb = 2 -> Notebook2
    [] nb = 3 -> Notebook3
    [] nb = 4 -> Notebook4

----------------------------------------------------------------------------
(* The kernel *)

IdleKernel ==
  [nb |-> 0, pc |-> 0, status |-> "idle", error |-> 0, ns |-> Empty, iters |-> Empty,
   stage |-> NoStage, cell |-> 0, log |-> <<>>]

\* a fresh kernel at the first statement of notebook nb
FreshKernel(nb) == [IdleKernel EXCEPT !.nb = nb, !.pc = 1, !.status = "running"]

AtEnd(k) == k.pc = Len(Program(k.nb)) + 1

\* the statement the kernel is about to execute
Cur(k) == Program(k.nb)[k.pc]

Running(k) == k.status = "running" /\ ~AtEnd(k)

Merge(d, e) == [x \in (DOMAIN d) \cup (DOMAIN e) |-> IF x \in DOMAIN e THEN e[x] ELSE d[x]]

\* the result of a statement: the kernel and the file system after it
Result(k, files) == [k |-> k, fs |-> files]

\* the statement returned: go on with the statement jmp places further
Done(k, files) == Result([k EXCEPT !.pc = @ + Cur(k).jmp], files)

\* the error is recorded and the run goes on with the next statement
Raise_Continue(k, files) ==
  Result([k EXCEPT !.error = Cur(k).line, !.pc = @ + Cur(k).jmp], files)

\* the statement raised: the error reaches the cell output and the run ends
Raise(k, files) == Result([k EXCEPT !.status = "failed", !.error = Cur(k).line], files)

\* the generator and cache file names an operation is logged with
ModelOf(ns) == IF "syn_model" \in DOMAIN ns THEN ns.syn_model.name ELSE ""
FileOf(ns) == IF "save_file" \in DOMAIN ns THEN ns.save_file ELSE <<>>

Event(k, ns, res) ==
  [op |-> Cur(k).op, cell |-> Cur(k).cell, model |-> ModelOf(ns), file |-> FileOf(ns), res |-> res]

Logged(k, ns, res) == [k EXCEPT !.ns = ns, !.log = Append(@, Event(k, ns, res))]

----------------------------------------------------------------------------
(* The statements.  in.ok: the external call returns (TRUE) or raises;     *)
(* in.data: the content of the dataset files; in.scores: what the          *)
(* evaluator returns; in.groups: the ethnicity groups in generated data.   *)

\* imports, logging configuration, resource paths
ExecSetup(k, files, in) == IF in.ok THEN Done(k, files) ELSE Raise(k, files)

\* name = literal, for every name of the statement
ExecAssign(k, files, in) == Done([k EXCEPT !.ns = Merge(@, Cur(k).a)], files)

\* save_file = Path("saved_models") / f"..."
ExecSaveFile(k, files, in) ==
  IF ~Bound(k.ns, FormatReads(Cur(k).a.fmt)) THEN Raise(k, files)
  ELSE Done([k EXCEPT !.ns = Bind(@, "save_file", Format(Cur(k).a.fmt, k.ns))], files)

\* X = pd.read_csv(...) and the other dataset loaders
ExecReadData(k, files, in) ==
  IF ~in.ok THEN Raise(k, files)
  ELSE Done([k EXCEPT !.ns = Bind(@, "X", [data |-> in.data])], files)

\* loader = GenericDataLoader(X, ...)
ExecLoader(k, files, in) ==
  IF ~in.ok \/ ~Bound(k.ns, {"X"}) THEN Raise(k, files)
  ELSE Done([k EXCEPT !.ns = Bind(@, "loader", [data |-> k.ns.X.data])], files)

\* ethnicity_idxes = <frame>["Ethnicity"].unique(); ethnicity_idxes.sort():
\* the groups present in the frame, in ascending order
ExecUnique(k, files, in) == Done([k EXCEPT !.ns = Bind(@, Cur(k).a.var, in.groups)], files)

\* list.append(item); np.mean(rep_vals) is a call that can raise
ExecAppend(k, files, in) ==
  LET a == Cur(k).a
  IN  IF ~Bound(k.ns, {a.list}) \/ (a.calls /\ ~in.ok) THEN Raise(k, files)
      ELSE Done([k EXCEPT !.ns = Bind(@, a.list, Append(@[a.list], a.item))], files)

\* the sequence a for statement iterates over
Iterable(ns, a) == IF a.range THEN [j \in 1..ns[a.list] |-> j - 1] ELSE ns[a.list]

\* for var in list: bind the next element and enter the body, or leave the loop
ExecFor(k, files, in) ==
  LET a == Cur(k).a
      idx == IF k.pc \in DOMAIN k.iters THEN k.iters[k.pc] ELSE 0
  IN  IF ~Bound(k.ns, {a.list}) THEN Raise(k, files)
      ELSE IF idx < Len(Iterable(k.ns, a))
      THEN Result([k EXCEPT !.ns = Bind(@, a.var, Iterable(k.ns, a)[idx + 1]),
                            !.iters = Bind(@, k.pc, idx + 1),
                            !.pc = @ + 1], files)
      ELSE Result([k EXCEPT !.iters = [p \in (DOMAIN @) \ {k.pc} |-> @[p]],
                            !.pc = @ + a.body + 1], files)

\* if Path(save_file).exists(): / if not Path(save_file).exists():
ExecIfExists(k, files, in) ==
  LET a == Cur(k).a
      exists == k.ns.save_file \in DOMAIN files
      taken == IF a.neg THEN ~exists ELSE exists
  IN  IF ~Bound(k.ns, {"save_file"}) THEN Raise(k, files)
      ELSE Result([Logged(k, k.ns, exists) EXCEPT !.pc = IF taken THEN @ + 1 ELSE @ + a.else],
                  files)

\* syn_model = Plugins().get(model, ...): an unfit generator
ExecCreate(k, files, in) ==
  LET a == Cur(k).a
      reads == a.kw \cup (IF a.nameVar = "" THEN {} ELSE {a.nameVar})
      gen == [name |-> IF a.nameVar = "" THEN a.nameLit ELSE k.ns[a.nameVar],
              kwargs |-> [x \in a.kw \cup DOMAIN a.lit |->
                            IF x \in a.kw THEN k.ns[x] ELSE a.lit[x]],
              fitted |-> FALSE, data |-> 0, loaded |-> FALSE]
  IN  IF ~in.ok \/ ~Bound(k.ns, reads) THEN Raise(k, files)
      ELSE Done(Logged(k, Bind(k.ns, "syn_model", gen), TRUE), files)

\* a fit that writes the generator to the cache file when it is interrupted
ExecFit_Checkpoint(k, files, in) ==
  IF ~Bound(k.ns, {"syn_model", "loader"}) THEN Raise(k, files)
  ELSE IF ~in.ok
       THEN Raise(k, IF Bound(k.ns, {"save_file"})
                     THEN Bind(files, k.ns.save_file,
                               [name |-> k.ns.syn_model.name, kwargs |-> k.ns.syn_model.kwargs,
                                fitted |-> FALSE, data |-> k.ns.loader.data])
                     ELSE files)
       ELSE Done(Logged(k, [k.ns EXCEPT !.syn_model.fitted = TRUE,
                                        !.syn_model.data = k.ns.loader.data], TRUE), files)

\* syn_model.fit(loader)
ExecFit(k, files, in) ==
  IF ~in.ok \/ ~Bound(k.ns, {"syn_model", "loader"}) THEN Raise(k, files)
  ELSE Done(Logged(k, [k.ns EXCEPT !.syn_model.fitted = TRUE,
                                   !.syn_model.data = k.ns.loader.data], TRUE), files)

\* what serialization.save_to_file pickles
Pickled(gen) == [name |-> gen.name, kwargs |-> gen.kwargs, fitted |-> gen.fitted, data |-> gen.data]

\* serialization.save_to_file(save_file, syn_model)
ExecSave(k, files, in) ==
  IF ~in.ok \/ ~Bound(k.ns, {"syn_model", "save_file"}) THEN Raise(k, files)
  ELSE Done(Logged(k, k.ns, TRUE), Bind(files, k.ns.save_file, Pickled(k.ns.syn_model)))

\* what serialization.load_from_file returns
Unpickled(blob) ==
  [name |-> blob.name, kwargs |-> blob.kwargs, fitted |-> blob.fitted, data |-> blob.data,
   loaded |-> TRUE]

\* syn_model = serialization.load_from_file(save_file)
ExecLoad(k, files, in) ==
  IF ~in.ok \/ ~Bound(k.ns, {"save_file"}) THEN Raise(k, files)
  ELSE IF k.ns.save_file \notin DOMAIN files THEN Raise(k, files)
  ELSE Done(Logged(k, Bind(k.ns, "syn_model", Unpickled(files[k.ns.save_file])), TRUE), files)

\* dag = syn_model.get_dag(loader.dataframe())
ExecGetDag(k, files, in) ==
  IF ~in.ok \/ ~Bound(k.ns, {"syn_model", "loader"}) THEN Raise(k, files) ELSE Done(k, files)

\* syn_model.generate(count, ...): the library refuses an unfit generator
ExecGenerate(k, files, in) ==
  IF ~in.ok \/ ~Bound(k.ns, {"syn_model"}) THEN Raise(k, files)
  ELSE IF ~k.ns.syn_model.fitted THEN Raise(k, files)
  ELSE Done(Logged(k, k.ns, TRUE), files)

\* evaluation = Metrics().evaluate(loader, X_syn, ...) and the fairness scores
ExecEvaluate(k, files, in) ==
  IF ~in.ok \/ ~Bound(k.ns, {"loader"}) THEN Raise(k, files)
  ELSE Done(Logged(k, Bind(k.ns, Cur(k).a.var, in.scores), TRUE), files)

\* the loop stops at the first model whose score is not 0
ExecStoreEval_StopAtBest(k, files, in) ==
  IF ~Bound(k.ns, {"eval_results", "model", "evaluation"}) THEN Raise(k, files)
  ELSE Result([k EXCEPT !.ns.eval_results = Bind(@, k.ns.model, k.ns.evaluation),
                        !.pc = IF k.ns.evaluation.mean = 0 THEN @ + Cur(k).jmp ELSE @ + 1],
              files)

\* eval_results[model] = evaluation
ExecStoreEval(k, files, in) ==
  IF ~Bound(k.ns, {"eval_results", "model", "evaluation"}) THEN Raise(k, files)
  ELSE Done([k EXCEPT !.ns.eval_results = Bind(@, k.ns.model, k.ns.evaluation)], files)

\* np.min and np.max of the values of a row
Min(S) == CHOOSE x \in S : \A y \in S : x <= y
Max(S) == CHOOSE x \in S : \A y \in S : x >= y

\* highlights(row) with the test for the worst value made first
Highlights_WorstFirst(row, direction) ==
  LET vals == {row[p] : p \in DOMAIN row}
      best_val == IF direction = "minimize" THEN Min(vals) ELSE Max(vals)
      worst_val == IF direction = "minimize" THEN Max(vals) ELSE Min(vals)
  IN  [p \in DOMAIN row |->
         IF row[p] = worst_val THEN "background-color: lightcoral;"
         ELSE IF row[p] = best_val THEN "background-color: green;"
         ELSE ""]

\* highlights(row): the style of every value of the row of one metric
Highlights(row, direction) ==
  LET vals == {row[p] : p \in DOMAIN row}
      best_val == IF direction = "minimize" THEN Min(vals) ELSE Max(vals)
      worst_val == IF direction = "minimize" THEN Max(vals) ELSE Min(vals)
  IN  [p \in DOMAIN row |->
         IF row[p] = best_val THEN "background-color: green;"
         ELSE IF row[p] = worst_val THEN "background-color: lightcoral;"
         ELSE ""]

\* the key the loop over eval_results visits last: the dict keeps the order
\* in which the models were stored
LastPlugin(ns) ==
  ns.models[Max({i \in 1..Len(ns.models) : ns.models[i] \in DOMAIN ns.eval_results})]

\* out = pd.concat(means, axis=1); out.style.apply(highlights, axis=1): the
\* directions are those of the table visited last
ExecHighlights(k, files, in) ==
  IF ~in.ok \/ ~Bound(k.ns, {"eval_results", "models"}) THEN Raise(k, files)
  ELSE IF DOMAIN k.ns.eval_results = {} THEN Raise(k, files)
  ELSE LET res == k.ns.eval_results
           directions == res[LastPlugin(k.ns)].direction
           out == Highlights([p \in DOMAIN res |-> res[p].mean], directions)
       IN  Done([k EXCEPT !.ns = Bind(@, "out", out)], files)

\* pd.concat, drop, loc, reset_index, np.mean
ExecPandas(k, files, in) == IF in.ok THEN Done(k, files) ELSE Raise(k, files)

\* the downstream classifier: train_test_split, load, fit, predict and score
ExecDownstream(k, files, in) == IF in.ok THEN Done(k, files) ELSE Raise(k, files)

\* print, display and the plots
ExecDisplay(k, files, in) == IF in.ok THEN Done(k, files) ELSE Raise(k, files)

Exec(k, files, in) ==
  CASE Cur(k).op = "setup" -> ExecSetup(k, files, in)
    [] Cur(k).op = "assign" -> ExecAssign(k, files, in)
    [] Cur(k).op = "save_file" -> ExecSaveFile(k, files, in)
    [] Cur(k).op = "read_data" -> ExecReadData(k, files, in)
    [] Cur(k).op = "loader" -> ExecLoader(k, files, in)
    [] Cur(k).op = "unique" -> ExecUnique(k, files, in)
    [] Cur(k).op = "append" -> ExecAppend(k, files, in)
    [] Cur(k).op = "for" -> ExecFor(k, files, in)
    [] Cur(k).op = "if_exists" -> ExecIfExists(k, files, in)
    [] Cur(k).op = "create" -> ExecCreate(k, files, in)
    [] Cur(k).op = "fit" -> ExecFit(k, files, in)
    [] Cur(k).op = "save" -> ExecSave(k, files, in)
    [] Cur(k).op = "load" -> ExecLoad(k, files, in)
    [] Cur(k).op = "get_dag" -> ExecGetDag(k, files, in)
    [] Cur(k).op = "generate" -> ExecGenerate(k, files, in)
    [] Cur(k).op = "evaluate" -> ExecEvaluate(k, files, in)
    [] Cur(k).op = "store_eval" -> ExecStoreEval(k, files, in)
    [] Cur(k).op = "highlights" -> ExecHighlights(k, files, in)
    [] Cur(k).op = "pandas" -> ExecPandas(k, files, in)
    [] Cur(k).op = "downstream" -> ExecDownstream(k, files, in)
    [] Cur(k).op = "display" -> ExecDisplay(k, files, in)

\* the kernel enters the cell and the stage of the statement it is about to execute
Enter(k) ==
  [k EXCEPT !.cell = Cur(k).cell,
            !.stage = IF Cur(k).stage = NoStage THEN @ ELSE Cur(k).stage]

\* one statement of the run
Step(k, files, in) == Exec(Enter(k), files, in)

----------------------------------------------------------------------------
(* Inputs *)

Directions == {"minimize", "maximize"}

\* what an evaluation can return.  The table has one row per metric and the
\* notebooks handle every row alike; the model keeps one row: the score of a
\* metric and its direction
ScoreTables == [mean : 0..MaxScore, direction : Directions]

BaseScores == [mean |-> 0, direction |-> "minimize"]

TopScores == [mean |-> MaxScore, direction |-> "maximize"]

\* the members of a set of numbers in ascending order
RECURSIVE Ascending(_)
Ascending(S) == IF S = {} THEN <<>> ELSE <<Min(S)>> \o Ascending(S \ {Min(S)})

\* the groups a frame over the given classes is taken to hold, sorted: none
\* (the frame has no record), a single one, or all of them
EthnicityGroups(classes) ==
  {Ascending(S) : S \in {T \in SUBSET classes : Cardinality(T) \in {0, 1, Cardinality(classes)}}}

\* what unique() can return at the statement k is at: augmented_X (line 513)
\* holds every record of X_in, whose groups ethnicity_idxes still names
GroupsAt(k) ==
  IF ~(Running(k) /\ Cur(k).op = "unique") THEN {<<>>}
  ELSE LET a == Cur(k).a
           seen == IF a.grows /\ Bound(k.ns, {a.var})
                   THEN {k.ns[a.var][i] : i \in DOMAIN k.ns[a.var]}
                   ELSE {}
       IN  {g \in EthnicityGroups(a.classes) : seen \subseteq {g[i] : i \in DOMAIN g}}

\* the outcomes of the statement k is at when every library call returns:
\* {unique[0]: counts[0], unique[1]: counts[1]} (line 793) still raises when
\* the predictions hold a single class
OutcomesAt(k) ==
  IF Running(k) /\ Cur(k).op = "pandas" /\ Cur(k).a = Kind("counts") THEN BOOLEAN ELSE {TRUE}

Input(ok, data, scores, groups) ==
  [ok |-> ok, data |-> data, scores |-> scores, groups |-> groups]

----------------------------------------------------------------------------
(* Runs of a notebook against saved_models/ *)

\* no workflow job, no data-preparation cell
NoJob == [state |-> "none"]
NoFrame == [cell |-> "none"]

Init ==
  /\ kernel = IdleKernel
  /\ fs = Empty
  /\ dataVersion = 1
  /\ runs = 0
  /\ clean = TRUE
  /\ fits = Empty
  /\ completed = {}
  /\ kernelS = IdleKernel
  /\ fsS = Empty
  /\ ci = NoJob
  /\ frame = NoFrame
  /\ unsaved = {}

\* the operation the statement just executed logged, if any
NewEvents(k, r) == SubSeq(r.k.log, Len(k.log) + 1, Len(r.k.log))

\* the number of fits recorded for a generator
Count(f, site) == IF site \in DOMAIN f THEN f[site] ELSE 0

\* the fits recorded after a statement
Recorded(f, k, r) ==
  IF NewEvents(k, r) # <<>> /\ NewEvents(k, r)[1].op = "fit"
  THEN LET site == <<k.nb, NewEvents(k, r)[1].cell, NewEvents(k, r)[1].model>>
       IN  Bind(f, site, Count(f, site) + 1)
  ELSE f

\* the cache files left without a generator: a fit that raised adds the
\* file of its cell, the next look-up of the file removes it
Unsaved(u, k, r) ==
  IF "save_file" \notin DOMAIN k.ns THEN u
  ELSE IF Cur(k).op = "fit" /\ r.k.status = "failed" THEN u \cup {k.ns.save_file}
  ELSE IF Cur(k).op = "if_exists" /\ r.k.status # "failed" THEN u \ {k.ns.save_file}
  ELSE u

\* the state after a statement, with the history of fits and failures
Commit(r) ==
  /\ kernel' = r.k
  /\ fs' = r.fs
  /\ clean' = (clean /\ r.k.status # "failed")
  /\ fits' = IF clean' THEN Recorded(fits, kernel, r) ELSE Empty
  /\ completed' = IF clean' THEN completed ELSE {}
  /\ unsaved' = Unsaved(unsaved, kernel, r)
  /\ UNCHANGED <<dataVersion, runs, kernelS, fsS, ci, frame>>

\* the kernel is about to execute a statement of kind op
At(op) == Running(kernel) /\ Cur(kernel).op = op

\* the inputs of a statement whose call returns (ok) or raises
Outcome(ok) == Input(ok, dataVersion, BaseScores, <<>>)

\* "Run all" on a fresh kernel
StartRun(nb) ==
  /\ kernel.status = "idle"
  /\ runs < MaxRuns
  /\ kernel' = FreshKernel(nb)
  /\ runs' = runs + 1
  /\ UNCHANGED <<fs, dataVersion, clean, fits, completed, kernelS, fsS, ci, frame, unsaved>>

Setup ==
  /\ At("setup")
  /\ \E ok \in BOOLEAN : Commit(ExecSetup(Enter(kernel), fs, Outcome(ok)))

Assign ==
  /\ At("assign")
  /\ Commit(ExecAssign(Enter(kernel), fs, Outcome(TRUE)))

SaveFile ==
  /\ At("save_file")
  /\ Commit(ExecSaveFile(Enter(kernel), fs, Outcome(TRUE)))

ReadData ==
  /\ At("read_data")
  /\ \E ok \in BOOLEAN : Commit(ExecReadData(Enter(kernel), fs, Outcome(ok)))

Loader ==
  /\ At("loader")
  /\ \E ok \in BOOLEAN : Commit(ExecLoader(Enter(kernel), fs, Outcome(ok)))

Unique ==
  /\ At("unique")
  /\ \E g \in GroupsAt(kernel) :
       Commit(ExecUnique(Enter(kernel), fs, Input(TRUE, dataVersion, BaseScores, g)))

ListAppend ==
  /\ At("append")
  /\ \E ok \in BOOLEAN : Commit(ExecAppend(Enter(kernel), fs, Outcome(ok)))

For ==
  /\ At("for")
  /\ Commit(ExecFor(Enter(kernel), fs, Outcome(TRUE)))

IfExists ==
  /\ At("if_exists")
  /\ Commit(ExecIfExists(Enter(kernel), fs, Outcome(TRUE)))

Create ==
  /\ At("create")
  /\ \E ok \in BOOLEAN : Commit(ExecCreate(Enter(kernel), fs, Outcome(ok)))

Fit ==
  /\ At("fit")
  /\ \E ok \in BOOLEAN : Commit(ExecFit(Enter(kernel), fs, Outcome(ok)))

Save ==
  /\ At("save")
  /\ \E ok \in BOOLEAN : Commit(ExecSave(Enter(kernel), fs, Outcome(ok)))

Load ==
  /\ At("load")
  /\ \E ok \in BOOLEAN : Commit(ExecLoad(Enter(kernel), fs, Outcome(ok)))

GetDag ==
  /\ At("get_dag")
  /\ \E ok \in BOOLEAN : Commit(ExecGetDag(Enter(kernel), fs, Outcome(ok)))

Generate ==
  /\ At("generate")
  /\ \E ok \in BOOLEAN : Commit(ExecGenerate(Enter(kernel), fs, Outcome(ok)))

StoreEval ==
  /\ At("store_eval")
  /\ Commit(ExecStoreEval(Enter(kernel), fs, Outcome(TRUE)))

ShowHighlights ==
  /\ At("highlights")
  /\ \E ok \in BOOLEAN : Commit(ExecHighlights(Enter(kernel), fs, Outcome(ok)))

Pandas ==
  /\ At("pandas")
  /\ \E ok \in BOOLEAN : Commit(ExecPandas(Enter(kernel), fs, Outcome(ok)))

Downstream ==
  /\ At("downstream")
  /\ \E ok \in BOOLEAN : Commit(ExecDownstream(Enter(kernel), fs, Outcome(ok)))

Display ==
  /\ At("display")
  /\ \E ok \in BOOLEAN : Commit(ExecDisplay(Enter(kernel), fs, Outcome(ok)))

\* the evaluator returns a table of scores, or raises.  Single runs draw the
\* table from the two extreme ones; pairs of runs (below) draw it from all.
Evaluate ==
  /\ At("evaluate")
  /\ \E ok \in BOOLEAN : \E s \in {BaseScores, TopScores} :
       /\ ok \/ s = BaseScores
       /\ Commit(ExecEvaluate(Enter(kernel), fs, Input(ok, dataVersion, s, <<>>)))

\* the last cell returned
FinishRun ==
  /\ kernel.status = "running"
  /\ AtEnd(kernel)
  /\ kernel' = [kernel EXCEPT !.status = "done"]
  /\ completed' = IF clean THEN completed \cup {kernel.nb} ELSE {}
  /\ UNCHANGED <<fs, dataVersion, runs, clean, fits, kernelS, fsS, ci, frame, unsaved>>

\* the kernel of a run that ended is shut down
Shutdown ==
  /\ kernel.status \in {"done", "failed"}
  /\ kernel' = IdleKernel
  /\ UNCHANGED <<fs, dataVersion, runs, clean, fits, completed, kernelS, fsS, ci, frame, unsaved>>

\* between two runs the participant deletes a cache file
RemoveCacheFile ==
  /\ kernel.status = "idle"
  /\ \E f \in DOMAIN fs : fs' = [g \in (DOMAIN fs) \ {f} |-> fs[g]]
  /\ clean' = FALSE
  /\ fits' = Empty
  /\ completed' = {}
  /\ UNCHANGED <<kernel, dataVersion, runs, kernelS, fsS, ci, frame, unsaved>>

\* between two runs the dataset files get another content
ChangeDataset ==
  /\ kernel.status = "idle"
  /\ dataVersion < MaxDataVersion
  /\ dataVersion' = dataVersion + 1
  /\ UNCHANGED <<kernel, fs, runs, clean, fits, completed, kernelS, fsS, ci, frame, unsaved>>

Next ==
  \/ \E nb \in Notebooks : StartRun(nb)
  \/ Setup
  \/ Assign
  \/ SaveFile
  \/ ReadData
  \/ Loader
  \/ Unique
  \/ ListAppend
  \/ For
  \/ IfExists
  \/ Create
  \/ Fit
  \/ Save
  \/ Load
  \/ GetDag
  \/ Generate
  \/ Evaluate
  \/ StoreEval
  \/ ShowHighlights
  \/ Pandas
  \/ Downstream
  \/ Display
  \/ FinishRun
  \/ Shutdown
  \/ RemoveCacheFile
  \/ ChangeDataset

Spec == Init /\ [][Next]_vars

----------------------------------------------------------------------------
(* Pairs of runs.  Two kernels run the same notebook from the same file    *)
(* system and meet the same failures; the evaluator answers the first with *)
(* BaseScores and the second with any table.                               *)

History == <<dataVersion, clean, fits, completed>>

\* one statement of a kernel that is still running
StepIfRunning(k, files, in) == IF Running(k) THEN Step(k, files, in) ELSE Result(k, files)

PairCommit(a, b) ==
  /\ kernel' = a.k
  /\ fs' = a.fs
  /\ kernelS' = b.k
  /\ fsS' = b.fs
  /\ UNCHANGED <<runs, History, ci, frame, unsaved>>

PairStart(nb) ==
  /\ kernel.status = "idle"
  /\ kernelS.status = "idle"
  /\ runs < MaxRuns
  /\ kernel' = FreshKernel(nb)
  /\ kernelS' = FreshKernel(nb)
  /\ runs' = runs + 1
  /\ UNCHANGED <<fs, fsS, History, ci, frame, unsaved>>

\* both runs execute their next statement, with the same outcome of the call
PairStatement ==
  /\ Running(kernel) \/ Running(kernelS)
  /\ ~(Running(kernelS) /\ Cur(kernelS).op = "evaluate")
  /\ \E ok \in BOOLEAN : \E g \in GroupsAt(kernel) \cup GroupsAt(kernelS) :
       PairCommit(StepIfRunning(kernel, fs, Input(ok, dataVersion, BaseScores, g)),
                  StepIfRunning(kernelS, fsS, Input(ok, dataVersion, BaseScores, g)))

\* the second run is at an evaluation: the evaluator returns it any table
PairEvaluate ==
  /\ Running(kernelS)
  /\ Cur(kernelS).op = "evaluate"
  /\ \E ok \in BOOLEAN : \E s \in ScoreTables :
       /\ ok \/ s = BaseScores
       /\ PairCommit(StepIfRunning(kernel, fs, Input(ok, dataVersion, BaseScores, <<>>)),
                     StepIfRunning(kernelS, fsS, Input(ok, dataVersion, s, <<>>)))

Finished(k) == IF k.status = "running" /\ AtEnd(k) THEN [k EXCEPT !.status = "done"] ELSE k

PairFinish ==
  /\ ~Running(kernel)
  /\ ~Running(kernelS)
  /\ "running" \in {kernel.status, kernelS.status}
  /\ kernel' = Finished(kernel)
  /\ kernelS' = Finished(kernelS)
  /\ UNCHANGED <<fs, fsS, runs, History, ci, frame, unsaved>>

PairShutdown ==
  /\ kernel.status \in {"done", "failed"}
  /\ kernelS.status \in {"done", "failed"}
  /\ kernel' = IdleKernel
  /\ kernelS' = IdleKernel
  /\ UNCHANGED <<fs, fsS, runs, History, ci, frame, unsaved>>

NextPair ==
  \/ \E nb \in Notebooks : PairStart(nb)
  \/ PairStatement
  \/ PairEvaluate
  \/ PairFinish
  \/ PairShutdown

SpecPair == Init /\ [][NextPair]_vars

----------------------------------------------------------------------------
(* The Tutorials workflow: one job per Python version and operating system. *)
(* A job checks the repository out, installs the pinned requirements and    *)
(* runs every notebook of Tutorials/.  The job is given what the workflow   *)
(* installs: the library calls of the notebooks return.  What a statement   *)
(* of a notebook does with the values they return is the notebook's own.    *)

PythonVersions == {"3.8", "3.9", "3.10"}

OperatingSystems == {"macos-latest", "ubuntu-latest", "windows-latest"}

\* strategy.matrix
Matrix == [python : PythonVersions, os : OperatingSystems]

\* a generator fit and saved by an earlier run of its notebook
Fitted(name, kwargs) == [name |-> name, kwargs |-> kwargs, fitted |-> TRUE, data |-> 1]

\* the cache files a run of a notebook leaves in saved_models/
Saved(nb) ==
  CASE nb = 1 -> Empty
    [] nb = 2 ->
         Bind(Bind(Empty,
                   FormatCtgan([prefix |-> "fairness.conditional_augmentation", model |-> "ctgan",
                                random_state |-> 42]),
                   Fitted("ctgan", [random_state |-> 42])),
              FormatDecaf([prefix |-> "fairness.causal_generation", model |-> "decaf",
                           n_iter |-> 101, random_state |-> 6]),
              Fitted("decaf", [struct_learning_enabled |-> TRUE, n_iter |-> 101,
                               random_state |-> 6]))
    [] nb = 3 ->
         [f \in {FormatPrivacy([prefix |-> "privacy", model |-> m, n_iter |-> 100,
                                random_state |-> 42]) : m \in {"dpgan", "adsgan", "pategan"}} |->
            Fitted(f[3], [random_state |-> 42])]
    [] nb = 4 ->
         Bind(Empty,
              FormatRadialgan([prefix |-> "augmentation", model |-> "radialgan", n_iter |-> 100,
                               random_state |-> 7, region_mapper |-> RegionMapper,
                               our_region_index |-> 0]),
              Fitted("radialgan", [n_iter |-> 100, random_state |-> 7]))

RECURSIVE SavedBy(_)
SavedBy(nbs) ==
  IF nbs = {} THEN Empty
  ELSE LET nb == CHOOSE x \in nbs : TRUE IN Merge(SavedBy(nbs \ {nb}), Saved(nb))

\* actions/checkout: saved_models/ holds none of the cache files, or all
Checkouts == {Empty, SavedBy(Notebooks)}

InitCI ==
  /\ kernel = IdleKernel
  /\ fs \in Checkouts
  /\ dataVersion = 1
  /\ runs = 0
  /\ clean = TRUE
  /\ fits = Empty
  /\ completed = {}
  /\ kernelS = IdleKernel
  /\ fsS = Empty
  /\ ci \in {[state |-> "queued", python |-> j.python, os |-> j.os, todo |-> Notebooks] :
              j \in Matrix}
  /\ frame = NoFrame
  /\ unsaved = {}

\* the steps before "Run tutorials"
CISetUp ==
  /\ ci.state = "queued"
  /\ ci' = [ci EXCEPT !.state = "running"]
  /\ UNCHANGED <<kernel, fs, runs, History, kernelS, fsS, frame, unsaved>>

\* nb_eval.py opens the next notebook of the directory on a fresh kernel
CIOpen(nb) ==
  /\ ci.state = "running"
  /\ kernel.status = "idle"
  /\ nb \in ci.todo
  /\ kernel' = FreshKernel(nb)
  /\ ci' = [ci EXCEPT !.todo = @ \ {nb}]
  /\ UNCHANGED <<fs, runs, History, kernelS, fsS, frame, unsaved>>

\* the next statement of the notebook; its library call returns, and the
\* statement raises where the notebook's own code can
CIStatement ==
  /\ ci.state = "running"
  /\ Running(kernel)
  /\ \E ok \in OutcomesAt(kernel), s \in {BaseScores, TopScores}, g \in GroupsAt(kernel) :
       LET r == Step(kernel, fs, Input(ok, dataVersion, s, g))
       IN  kernel' = r.k /\ fs' = r.fs
  /\ UNCHANGED <<runs, History, kernelS, fsS, ci, frame, unsaved>>

\* the notebook reached the end of its last cell
CIClose ==
  /\ ci.state = "running"
  /\ kernel.status = "running"
  /\ AtEnd(kernel)
  /\ kernel' = IdleKernel
  /\ UNCHANGED <<fs, runs, History, kernelS, fsS, ci, frame, unsaved>>

\* a statement of the notebook raised: the job fails
CIFail ==
  /\ ci.state = "running"
  /\ kernel.status = "failed"
  /\ ci' = [ci EXCEPT !.state = "failed"]
  /\ UNCHANGED <<kernel, fs, runs, History, kernelS, fsS, frame, unsaved>>

\* every notebook was run: the job passes
CIPass ==
  /\ ci.state = "running"
  /\ ci.todo = {}
  /\ kernel.status = "idle"
  /\ ci' = [ci EXCEPT !.state = "passed"]
  /\ UNCHANGED <<kernel, fs, runs, History, kernelS, fsS, frame, unsaved>>

NextCI ==
  \/ CISetUp
  \/ \E nb \in Notebooks : CIOpen(nb)
  \/ CIStatement
  \/ CIClose
  \/ CIFail
  \/ CIPass

\* a job that can take a step takes one
SpecCI == InitCI /\ [][NextCI]_vars /\ WF_vars(NextCI)

----------------------------------------------------------------------------
(* The data-preparation cells.  A data frame is the sequence of its rows; a *)
(* row is a record of its columns.  frame.cell names the cell under study,  *)
(* frame.status is "running", "done" or "failed" (the cell raised).         *)

\* the variables of the notebook runs and of the workflow
Notebook == <<kernel, fs, dataVersion, runs, clean, fits, completed, kernelS, fsS, ci, unsaved>>

\* no notebook is running
NoRun ==
  /\ kernel = IdleKernel
  /\ fs = Empty
  /\ dataVersion = 1
  /\ runs = 0
  /\ clean = TRUE
  /\ fits = Empty
  /\ completed = {}
  /\ kernelS = IdleKernel
  /\ fsS = Empty
  /\ ci = NoJob
  /\ unsaved = {}

\* the data frames with at most MaxRows rows drawn from rows
Frames(rows) == UNION {[1..n -> rows] : n \in 0..MaxRows}

\* df.loc[mask, column] = value, mask being a boolean for each row
LocAssign(df, mask, column, value) ==
  [i \in DOMAIN df |-> IF mask[i] THEN [df[i] EXCEPT ![column] = value] ELSE df[i]]

\* the indices from i on that mask selects, in order
RECURSIVE Where(_, _)
Where(mask, i) ==
  IF i > Len(mask) THEN <<>>
  ELSE (IF mask[i] THEN <<i>> ELSE <<>>) \o Where(mask, i + 1)

\* df.loc[mask]
Loc(df, mask) == [j \in DOMAIN Where(mask, 1) |-> df[Where(mask, 1)[j]]]

\* df.drop(columns=[column]), row by row
Drop(r, column) == [f \in (DOMAIN r) \ {column} |-> r[f]]

\* a value missing from a column (NaN)
NaN == -1

----------------------------------------------------------------------------
(* Time-horizon labelling: Case Study 2 cells 77e4f82e and 99e3bdf9, Case   *)
(* Study 4 cell 4.                                                          *)

time_horizon == 14

\* the column is_dead_at_time_horizon=14
Label == "is_dead_at_time_horizon"

\* the records of the csv file around the time horizon, not yet labelled
SurvivalRows ==
  [Days_hospital_to_outcome : (time_horizon - 1)..(time_horizon + 1), is_dead : {0, 1},
   is_dead_at_time_horizon : {NaN}]

\* (X["Days_hospital_to_outcome"] <= time_horizon) & (X["is_dead"] == 1)
DiedInTime(r) == r.Days_hospital_to_outcome <= time_horizon /\ r.is_dead = 1

\* the mask with the time horizon itself counted as outlived
Outlived_Inclusive(r) == r.Days_hospital_to_outcome >= time_horizon

\* (X["Days_hospital_to_outcome"] > time_horizon)
Outlived(r) == r.Days_hospital_to_outcome > time_horizon

\* (X["is_dead"] == 0)
Alive(r) == r.is_dead = 0

\* the three assignments of the label column
LabelAssignment(n, X) ==
  CASE n = 1 -> LocAssign(X, [i \in DOMAIN X |-> DiedInTime(X[i])], Label, 1)
    [] n = 2 -> LocAssign(X, [i \in DOMAIN X |-> Outlived(X[i])], Label, 0)
    [] n = 3 -> LocAssign(X, [i \in DOMAIN X |-> Alive(X[i])], Label, 0)

InitLabel ==
  /\ NoRun
  /\ \E X \in Frames(SurvivalRows) :
       frame = [cell |-> "label", status |-> "running", X |-> X, given |-> X, applied |-> <<>>]

\* one of the three assignments; the notebooks apply them in the order 1, 2, 3
AssignLabel(n) ==
  /\ frame.cell = "label"
  /\ frame.status = "running"
  /\ \A i \in DOMAIN frame.applied : frame.applied[i] # n
  /\ frame' = [frame EXCEPT !.X = LabelAssignment(n, @), !.applied = Append(@, n)]
  /\ UNCHANGED Notebook

\* X[label] = X[label].astype(int): raises on a missing value
LabelAsInt ==
  /\ frame.cell = "label"
  /\ frame.status = "running"
  /\ Len(frame.applied) = 3
  /\ frame' = [frame EXCEPT !.status = IF \E i \in DOMAIN frame.X : frame.X[i][Label] = NaN
                                       THEN "failed" ELSE "labelled"]
  /\ UNCHANGED Notebook

\* X.drop(columns=["is_dead", "Days_hospital_to_outcome"], inplace=True)
DropOutcome ==
  /\ frame.cell = "label"
  /\ frame.status = "labelled"
  /\ frame' = [frame EXCEPT
                 !.X = [i \in DOMAIN @ |->
                          Drop(Drop(@[i], "is_dead"), "Days_hospital_to_outcome")],
                 !.status = "done"]
  /\ UNCHANGED Notebook

----------------------------------------------------------------------------
(* Two-class ethnicity: Case Study 2 cell 99e3bdf9 *)

\* ethnicity_mapper: 0 Mixed, 1 White, 2 Black, 3 East Asian, 4 Indigenous
Ethnicities == 0..4

EthnicityRows == [Ethnicity : Ethnicities]

\* (X["Ethnicity"] == 0) | (X["Ethnicity"] == 1)
IsMajority(r) == r.Ethnicity = 0 \/ r.Ethnicity = 1

\* (X["Ethnicity"] == 2) | (X["Ethnicity"] == 3) | (X["Ethnicity"] == 4)
IsMinority(r) == r.Ethnicity = 2 \/ r.Ethnicity = 3 \/ r.Ethnicity = 4

\* the first assignment writing 2 for the majority
RecodeMajority_AsTwo(X) == LocAssign(X, [i \in DOMAIN X |-> IsMajority(X[i])], "Ethnicity", 2)

\* X.loc[majority, "Ethnicity"] = 0
RecodeMajority(X) == LocAssign(X, [i \in DOMAIN X |-> IsMajority(X[i])], "Ethnicity", 0)

\* X.loc[minority, "Ethnicity"] = 1
RecodeMinority(X) == LocAssign(X, [i \in DOMAIN X |-> IsMinority(X[i])], "Ethnicity", 1)

InitRecode ==
  /\ NoRun
  /\ \E X \in Frames(EthnicityRows) :
       frame = [cell |-> "recode", status |-> "running", X |-> X, given |-> X,
                majority |-> <<>>, step |-> 0]

\* the first assignment; majority keeps the rows it wrote
Majority ==
  /\ frame.cell = "recode"
  /\ frame.step = 0
  /\ frame' = [frame EXCEPT !.X = RecodeMajority(@), !.step = 1,
                             !.majority = Where([i \in DOMAIN frame.X |-> IsMajority(frame.X[i])], 1)]
  /\ UNCHANGED Notebook

\* the second assignment
Minority ==
  /\ frame.cell = "recode"
  /\ frame.step = 1
  /\ frame' = [frame EXCEPT !.X = RecodeMinority(@), !.step = 2, !.status = "done"]
  /\ UNCHANGED Notebook

----------------------------------------------------------------------------
(* The condition vector: Case Study 2 cell fd53bdd8.  The list cond is kept *)
(* as its length and the number of its entries per label.                   *)

\* the list with one more entry
Appended(cond, label) ==
  [len |-> cond.len + 1,
   tally |-> [l \in (DOMAIN cond.tally) \cup {label} |->
                IF l = label
                THEN (IF l \in DOMAIN cond.tally THEN cond.tally[l] ELSE 0) + 1
                ELSE cond.tally[l]]]

InitCond ==
  /\ NoRun
  /\ frame = [cell |-> "cond", status |-> "running", i |-> 0,
              cond |-> [len |-> 0, tally |-> Empty]]

\* cond = [(i % 5) for i in range(count)]: the next entry, or the end
CondEntry ==
  /\ frame.cell = "cond"
  /\ frame.status = "running"
  /\ frame' = IF frame.i < count
               THEN [frame EXCEPT !.cond = Appended(@, frame.i % 5), !.i = @ + 1]
               ELSE [frame EXCEPT !.status = "done"]
  /\ UNCHANGED Notebook

----------------------------------------------------------------------------
(* Records with an identity: src says whether a record was read from the    *)
(* csv file or generated, id is its position there.                         *)

\* the rows of a data frame
Rows(df) == {df[i] : i \in DOMAIN df}

\* pd.concat([a, b])
Concat(a, b) == a \o b

\* train_test_split(X, y, random_state=4): a quarter of the rows, rounded up,
\* is the test set
TestSize(n) == (n + 3) \div 4

\* train_test_split raises when a set would be empty
CanSplit(df) == Len(df) - TestSize(Len(df)) > 0

\* the positions the shuffle of n rows with random_state=4 can put in the
\* test set: the seed is fixed, so a second split of n rows repeats the first
Shuffles(shuffle, n) ==
  IF n \in DOMAIN shuffle THEN {shuffle[n]}
  ELSE {S \in SUBSET (1..n) : Cardinality(S) = TestSize(n)}

\* the two parts of a frame whose shuffle put the positions T in the test set
Split(df, T) == [test |-> {df[i] : i \in T}, train |-> {df[i] : i \in (DOMAIN df) \ T}]

\* <frame>["Ethnicity"].unique(), sorted
SortedUnique(df) == Ascending({df[i].Ethnicity : i \in DOMAIN df})

\* a classifier read from a file of the resources directory
FromFile(file) == [source |-> "file", file |-> file]

\* RandomForestClassifier(...), xgb.XGBClassifier(...): a classifier that has
\* neither been fit nor read from a file
New(class) == [source |-> "new", class |-> class]

\* one pass of `for ethnicity_idx in ethnicity_idxes:` in cells 73482d0b and
\* 532da12e: ethnicity_idx is bound to the next group, then prognostic_model
\* predicts the slice of X_test of the group; predict raises on a slice
\* without records, and ethnicity_idx stays bound.  The frame is merged with
\* `after` when the loop has ended.
GroupPass(after) ==
  IF frame.done < Len(frame.ethnicity_idxes)
  THEN LET idx == frame.ethnicity_idxes[frame.done + 1]
           X_test_per_ethnicity == {r \in frame.X_test : r.Ethnicity = idx}
       IN  frame' = IF X_test_per_ethnicity # {}
                     THEN [done |-> frame.done + 1, ethnicity_idx |-> idx,
                           predicted |-> <<X_test_per_ethnicity>>] @@ frame
                     ELSE [status |-> "failed", ethnicity_idx |-> idx] @@ frame
  ELSE frame' = after @@ frame

----------------------------------------------------------------------------
(* Case Study 2, sections 5.1 to 6.4: split, load, score, augment, load,    *)
(* score                                                                    *)

\* the real datasets and the generated ones, with the Ethnicity column
RealByEthnicity ==
  UNION {{[i \in 1..n |-> [src |-> "real", id |-> i, Ethnicity |-> e[i]]] :
            e \in [1..n -> Ethnicities]} : n \in 0..MaxRows}

GeneratedByEthnicity ==
  UNION {{[i \in 1..n |-> [src |-> "syn", id |-> i, Ethnicity |-> e[i]]] :
            e \in [1..n -> Ethnicities]} : n \in 0..MaxGenerated}

\* the mask that also takes the generated records of Ethnicity 1
UnderRepresented_FromOne(r) == r.Ethnicity >= 1

\* syn_data["Ethnicity"] >= 2
UnderRepresented(r) == r.Ethnicity >= 2

InitFairness ==
  /\ NoRun
  /\ \E X \in RealByEthnicity :
       frame = [cell |-> "fairness", status |-> "running", step |-> 0, X |-> X,
                shuffle |-> Empty]

\* cell 1645e4d1: X_train, X_test, y_train, y_test = train_test_split(X_in, y, random_state=4)
SplitReal ==
  /\ frame.cell = "fairness"
  /\ frame.status = "running"
  /\ frame.step = 0
  /\ IF CanSplit(frame.X)
     THEN \E T \in Shuffles(frame.shuffle, Len(frame.X)) :
            frame' = [step |-> 1, X_train |-> Split(frame.X, T).train,
                      X_test |-> Split(frame.X, T).test,
                      shuffle |-> Bind(frame.shuffle, Len(frame.X), T)] @@ frame
     ELSE frame' = [frame EXCEPT !.status = "failed"]
  /\ UNCHANGED Notebook

\* cell d4f58702: prognostic_model = RandomForestClassifier(...); the fit is a
\* comment; prognostic_model is then whatever pickle.load reads from the file
\* at saved_model_path.  When the file cannot be read the new classifier
\* stays bound.
LoadRealModel ==
  /\ frame.cell = "fairness"
  /\ frame.status = "running"
  /\ frame.step = 1
  /\ \E found \in BOOLEAN :
       frame' = IF found
                 THEN [step |-> 2,
                       prognostic_model |->
                         FromFile("fairness_cond_aug_random_forest_real_data.sav")] @@ frame
                 ELSE [status |-> "failed",
                       prognostic_model |-> New("RandomForestClassifier")] @@ frame
  /\ UNCHANGED Notebook

\* cell 2b1865db: prognostic_model.predict(X_train), then y_pred =
\* prognostic_model.predict(X_test)
ScoreReal ==
  /\ frame.cell = "fairness"
  /\ frame.status = "running"
  /\ frame.step = 2
  /\ frame' = [step |-> 3, predicted |-> <<frame.X_train, frame.X_test>>] @@ frame
  /\ UNCHANGED Notebook

\* cell 73482d0b: ethnicity_idxes = X_in["Ethnicity"].unique(); ethnicity_idxes.sort()
RealGroups ==
  /\ frame.cell = "fairness"
  /\ frame.status = "running"
  /\ frame.step = 3
  /\ frame' = [step |-> 4, ethnicity_idxes |-> SortedUnique(frame.X), done |-> 0] @@ frame
  /\ UNCHANGED Notebook

\* cell 73482d0b: for ethnicity_idx in ethnicity_idxes
ScoreRealGroup ==
  /\ frame.cell = "fairness"
  /\ frame.status = "running"
  /\ frame.step = 4
  /\ GroupPass([step |-> 5])
  /\ UNCHANGED Notebook

\* cell fd53bdd8: the generator returns syn_data;
\* augmented_data = pd.concat([X, syn_data.loc[syn_data["Ethnicity"] >= 2]])
AugmentReal ==
  /\ frame.cell = "fairness"
  /\ frame.status = "running"
  /\ frame.step = 5
  /\ \E syn_data \in GeneratedByEthnicity :
       frame' = [step |-> 6, syn_data |-> syn_data,
                 augmented_data |->
                   Concat(frame.X,
                          Loc(syn_data,
                              [i \in DOMAIN syn_data |-> UnderRepresented(syn_data[i])]))] @@ frame
  /\ UNCHANGED Notebook

\* cell daa5cdd5: the fit is a comment; prognostic_model is whatever
\* pickle.load reads from the file at saved_model_path
LoadAugmentedModel ==
  /\ frame.cell = "fairness"
  /\ frame.status = "running"
  /\ frame.step = 6
  /\ \E found \in BOOLEAN :
       frame' = IF found
                 THEN [step |-> 7,
                       prognostic_model |->
                         FromFile("fairness_cond_aug_random_forest_augmented_data.sav")] @@ frame
                 ELSE [frame EXCEPT !.status = "failed"]
  /\ UNCHANGED Notebook

\* cell 1b8d8191: y_pred = prognostic_model.predict(X_test)
ScoreAugmented ==
  /\ frame.cell = "fairness"
  /\ frame.status = "running"
  /\ frame.step = 7
  /\ frame' = [step |-> 8, predicted |-> <<frame.X_test>>] @@ frame
  /\ UNCHANGED Notebook

\* cell 532da12e: ethnicity_idxes = augmented_X["Ethnicity"].unique(); ethnicity_idxes.sort()
AugmentedGroups ==
  /\ frame.cell = "fairness"
  /\ frame.status = "running"
  /\ frame.step = 8
  /\ frame' = [step |-> 9, ethnicity_idxes |-> SortedUnique(frame.augmented_data),
               done |-> 0] @@ frame
  /\ UNCHANGED Notebook

\* cell 532da12e: for ethnicity_idx in ethnicity_idxes
ScoreAugmentedGroup ==
  /\ frame.cell = "fairness"
  /\ frame.status = "running"
  /\ frame.step = 9
  /\ GroupPass([step |-> 10, status |-> "done"])
  /\ UNCHANGED Notebook

----------------------------------------------------------------------------
(* Case Study 4, sections 4 to 7.6 and extension (i): the regions, the      *)
(* Central-West split, the baseline split, the augmented dataset, its test  *)
(* split, the loaded classifiers and the sweep over the number of generated *)
(* records                                                                  *)

Regions == 0..4

our_region_index == 0

\* the real datasets with the Region column
RealByRegion ==
  UNION {{[i \in 1..n |-> [src |-> "real", id |-> i, Region |-> g[i]]] :
            g \in [1..n -> Regions]} : n \in 0..MaxRegionRows}

\* syn_model.generate(n_gen_records, domains=[our_region_index]).dataframe()
GeneratedFor(region) ==
  {[i \in 1..n |-> [src |-> "syn", id |-> i, Region |-> region]] : n \in 0..MaxGenerated}

\* the mask that selects the other regions
OurRegion_Others(r) == r.Region # our_region_index

\* X["Region"] == our_region_index
OurRegion(r) == r.Region = our_region_index

\* X["Region"] != our_region_index
OtherRegions(r) == r.Region # our_region_index

\* df.drop(columns=["Region"])
DropRegion(df) == [i \in DOMAIN df |-> Drop(df[i], "Region")]

InitAugmentation ==
  /\ NoRun
  /\ \E X \in RealByRegion :
       frame = [cell |-> "augmentation", status |-> "running", step |-> 0, X |-> X,
                shuffle |-> Empty]

\* cell 4: X_our_region_only, X_other_regions, X_all_regions
RegionSplit ==
  /\ frame.cell = "augmentation"
  /\ frame.status = "running"
  /\ frame.step = 0
  /\ frame' = [step |-> 1,
               X_our_region_only |-> Loc(frame.X, [i \in DOMAIN frame.X |-> OurRegion(frame.X[i])]),
               X_other_regions |-> Loc(frame.X, [i \in DOMAIN frame.X |-> OtherRegions(frame.X[i])]),
               X_all_regions |-> frame.X] @@ frame
  /\ UNCHANGED Notebook

\* cell 5.1: X_train, X_test, y_train, y_test = train_test_split(cw_X, cw_y, random_state=4)
RegionTestSplit ==
  /\ frame.cell = "augmentation"
  /\ frame.status = "running"
  /\ frame.step = 1
  /\ LET cw_X == frame.X_our_region_only
     IN IF CanSplit(cw_X)
        THEN \E T \in Shuffles(frame.shuffle, Len(cw_X)) :
               frame' = [step |-> 2, X_train |-> Split(cw_X, T).train,
                         X_test |-> Split(cw_X, T).test,
                         shuffle |-> Bind(frame.shuffle, Len(cw_X), T)] @@ frame
        ELSE frame' = [frame EXCEPT !.status = "failed"]
  /\ UNCHANGED Notebook

\* cell 5.2: xgb_model = xgb.XGBClassifier(...); the fit is a comment;
\* xgb_model.load_model(saved_model_path) reads the classifier from the file
\* named after region_mapper[our_region_index].  When load_model raises the
\* new classifier stays bound.
LoadCentralWestModel ==
  /\ frame.cell = "augmentation"
  /\ frame.status = "running"
  /\ frame.step = 2
  /\ \E found \in BOOLEAN :
       frame' = IF found
                 THEN [step |-> 3,
                       xgb_model |->
                         FromFile("augmentation_xgboost_real_"
                                    \o RegionMapper[our_region_index] \o "_data.json")] @@ frame
                 ELSE [status |-> "failed", xgb_model |-> New("XGBClassifier")] @@ frame
  /\ UNCHANGED Notebook

\* cell 5.3: xgb_model.predict(X_train), then y_pred = xgb_model.predict(X_test)
ScoreCentralWest ==
  /\ frame.cell = "augmentation"
  /\ frame.status = "running"
  /\ frame.step = 3
  /\ frame' = [step |-> 4, predicted |-> <<frame.X_train, frame.X_test>>] @@ frame
  /\ UNCHANGED Notebook

\* cell 6.1: X_train from the split of concat_X, X_test from the split of cw_X
BaselineSplit ==
  /\ frame.cell = "augmentation"
  /\ frame.status = "running"
  /\ frame.step = 4
  /\ LET concat_X == DropRegion(frame.X_all_regions)
         cw_X == DropRegion(frame.X_our_region_only)
     IN IF CanSplit(concat_X) /\ CanSplit(cw_X)
        THEN \E Ta \in Shuffles(frame.shuffle, Len(concat_X)) :
               \E Tc \in Shuffles(Bind(frame.shuffle, Len(concat_X), Ta), Len(cw_X)) :
                 frame' = [step |-> 5, X_train |-> Split(concat_X, Ta).train,
                           X_test |-> Split(cw_X, Tc).test,
                           shuffle |-> Bind(Bind(frame.shuffle, Len(concat_X), Ta),
                                            Len(cw_X), Tc)] @@ frame
        ELSE frame' = [frame EXCEPT !.status = "failed"]
  /\ UNCHANGED Notebook

\* cell 6.2: xgb_model = xgb.XGBClassifier(...); the fit is a comment;
\* xgb_model.load_model(saved_model_path).  When load_model raises the new
\* classifier stays bound.
LoadBaselineModel ==
  /\ frame.cell = "augmentation"
  /\ frame.status = "running"
  /\ frame.step = 5
  /\ \E found \in BOOLEAN :
       frame' = IF found
                 THEN [step |-> 6,
                       xgb_model |-> FromFile("augmentation_xgboost_real_all_data.json")] @@ frame
                 ELSE [status |-> "failed", xgb_model |-> New("XGBClassifier")] @@ frame
  /\ UNCHANGED Notebook

\* cell 6.3: xgb_model.predict(X_train), then y_pred = xgb_model.predict(X_test)
ScoreBaseline ==
  /\ frame.cell = "augmentation"
  /\ frame.status = "running"
  /\ frame.step = 6
  /\ frame' = [step |-> 7, predicted |-> <<frame.X_train, frame.X_test>>] @@ frame
  /\ UNCHANGED Notebook

\* cell 7.3: augmented_data = pd.concat([synth_data.dataframe(), X_our_region_only])
AugmentRegion ==
  /\ frame.cell = "augmentation"
  /\ frame.status = "running"
  /\ frame.step = 7
  /\ \E synth_data \in GeneratedFor(our_region_index) :
       frame' = [step |-> 8, synth_data |-> synth_data,
                 augmented_data |-> Concat(synth_data, frame.X_our_region_only)] @@ frame
  /\ UNCHANGED Notebook

\* cell 7.4: X_test is the test part of the split of cw_X again
AugmentedSplit ==
  /\ frame.cell = "augmentation"
  /\ frame.status = "running"
  /\ frame.step = 8
  /\ LET cw_X == frame.X_our_region_only
     IN \E T \in Shuffles(frame.shuffle, Len(cw_X)) :
          frame' = [step |-> 9, X_test |-> Split(cw_X, T).test,
                    shuffle |-> Bind(frame.shuffle, Len(cw_X), T)] @@ frame
  /\ UNCHANGED Notebook

\* cell 7.5: xgb_model = xgb.XGBClassifier(...); the fit is a comment;
\* xgb_model.load_model(saved_model_path) reads the classifier from the
\* file.  When load_model raises the new classifier stays bound.
LoadRegionModel ==
  /\ frame.cell = "augmentation"
  /\ frame.status = "running"
  /\ frame.step = 9
  /\ \E found \in BOOLEAN :
       frame' = IF found
                 THEN [step |-> 10,
                       xgb_model |->
                         FromFile("augmentation_xgboost_augmented_data.json")] @@ frame
                 ELSE [status |-> "failed", xgb_model |-> New("XGBClassifier")] @@ frame
  /\ UNCHANGED Notebook

\* cell 7.6: xgb_model.predict(augmented_X), then xgb_model.predict(X_test)
ScoreRegion ==
  /\ frame.cell = "augmentation"
  /\ frame.status = "running"
  /\ frame.step = 10
  /\ frame' = [step |-> 11,
               predicted |-> <<Rows(frame.augmented_data), frame.X_test>>] @@ frame
  /\ UNCHANGED Notebook

\* cell (i), before the loop: accuracies = [], kept as the number of its entries
SweepStart ==
  /\ frame.cell = "augmentation"
  /\ frame.status = "running"
  /\ frame.step = 11
  /\ frame' = [step |-> 12, accuracies |-> 0] @@ frame
  /\ UNCHANGED Notebook

\* cell (i), one pass of the loop: synth_data, augmented_data and X_train are
\* bound again, a new classifier is fit on X_train and predicts X_test, then
\* X_train; after the last pass the cell plots the accuracies.  Every pass
\* generates another number of records, so no pass repeats the shuffle of
\* another one.
SweepPass ==
  /\ frame.cell = "augmentation"
  /\ frame.status = "running"
  /\ frame.step = 12
  /\ IF frame.accuracies < Len(generated_records)
     THEN \E synth_data \in GeneratedFor(our_region_index) :
            LET augmented_data == Concat(synth_data, frame.X_our_region_only)
            IN IF CanSplit(augmented_data)
               THEN \E T \in Shuffles(frame.shuffle, Len(augmented_data)) :
                      frame' = [synth_data |-> synth_data,
                                augmented_data |-> augmented_data,
                                X_train |-> Split(augmented_data, T).train,
                                xgb_model |->
                                  [source |-> "fit", X |-> Split(augmented_data, T).train],
                                predicted |->
                                  <<frame.X_test, Split(augmented_data, T).train>>,
                                accuracies |-> frame.accuracies + 1] @@ frame
               ELSE frame' = [status |-> "failed", synth_data |-> synth_data,
                              augmented_data |-> augmented_data] @@ frame
     ELSE frame' = [frame EXCEPT !.status = "done"]
  /\ UNCHANGED Notebook

----------------------------------------------------------------------------
(* Case Study 3, cell 26b938f8: the metrics of one pass of the evaluation   *)
(* loop                                                                     *)

selected_metrics ==
  [detection |-> {"detection_xgb", "detection_mlp", "detection_gmm"},
   privacy |-> {"delta-presence", "k-anonymization", "k-map", "distinct l-diversity",
                "identifiability_score"},
   performance |-> {"linear_model", "mlp", "xgb"}]

\* display_metrics, as category and metric name
display_metrics ==
  {<<"performance", "xgb">>, <<"performance", "linear_model">>, <<"performance", "mlp">>,
   <<"detection", "detection_xgb">>, <<"detection", "detection_mlp">>,
   <<"detection", "detection_gmm">>, <<"detection", "detection_linear">>,
   <<"privacy", "k-anonymization">>, <<"privacy", "k-map">>,
   <<"privacy", "distinct l-diversity">>, <<"privacy", "identifiability_score">>}

\* the metric names the cell mentions for a category
Mentioned(category) ==
  selected_metrics[category] \cup {m[2] : m \in {d \in display_metrics : d[1] = category}}

\* what Metrics().list() can return for the categories the cell selects:
\* any of the names the cell mentions
ListsOfSelected ==
  {[detection |-> d, privacy |-> p, performance |-> f] :
     d \in SUBSET Mentioned("detection"),
     p \in SUBSET Mentioned("privacy"),
     f \in SUBSET Mentioned("performance")}

\* the library with or without a category that the cell does not select
MetricLists ==
  ListsOfSelected \cup {[stats |-> {"jensenshannon_dist"}] @@ l : l \in ListsOfSelected}

\* {k: my_metrics.list()[k] for k in my_metrics.list().keys() & selected_metrics.keys()}
Selection(list) == [k \in (DOMAIN list) \cap (DOMAIN selected_metrics) |-> list[k]]

InitMetrics ==
  /\ NoRun
  /\ \E list \in MetricLists :
       frame = [cell |-> "metrics", status |-> "running", step |-> 0, list |-> list]

\* selected_metrics_in_my_metrics = ...
SelectMetrics ==
  /\ frame.cell = "metrics"
  /\ frame.status = "running"
  /\ frame.step = 0
  /\ frame' = [step |-> 1, selected_metrics_in_my_metrics |-> Selection(frame.list)] @@ frame
  /\ UNCHANGED Notebook

\* evaluation = my_metrics.evaluate(..., metrics=selected_metrics_in_my_metrics, ...):
\* a row for each metric passed
EvaluateMetrics ==
  /\ frame.cell = "metrics"
  /\ frame.status = "running"
  /\ frame.step = 1
  /\ LET passed == frame.selected_metrics_in_my_metrics
     IN frame' = [step |-> 2,
                  evaluation |-> UNION {{<<k, m>> : m \in passed[k]} : k \in DOMAIN passed}]
                 @@ frame
  /\ UNCHANGED Notebook

\* evaluation = evaluation.loc[display_metrics]: a KeyError if a row is missing
DisplayMetrics ==
  /\ frame.cell = "metrics"
  /\ frame.status = "running"
  /\ frame.step = 2
  /\ IF display_metrics \subseteq frame.evaluation
     THEN frame' = [step |-> 3, status |-> "done", displayed |-> display_metrics] @@ frame
     ELSE frame' = [frame EXCEPT !.status = "failed"]
  /\ UNCHANGED Notebook

----------------------------------------------------------------------------
(* Case Study 2, cell 7e7244f0: the prediction counts of the fairness plot  *)

ethnicity_mapper_2_class == [i \in {0, 1} |-> IF i = 0 THEN "Majority" ELSE "Minority"]

\* the generated records with the two-class Ethnicity; predicted is the class
\* that xgb_model.predict gives the record
GeneratedByClass ==
  UNION {{[i \in 1..n |-> [src |-> "syn", id |-> i, Ethnicity |-> e[i], predicted |-> c[i]]] :
            e \in [1..n -> {0, 1}], c \in [1..n -> {0, 1}]} : n \in 0..MaxGenerated}

\* np.unique(xgb_model.predict(df), return_counts=True), as class -> count
UniqueCounts(df) ==
  [c \in {df[i].predicted : i \in DOMAIN df} |->
     Cardinality({i \in DOMAIN df : df[i].predicted = c})]

InitPlot ==
  /\ NoRun
  /\ \E data \in GeneratedByClass :
       frame = [cell |-> "plot", status |-> "running", synth_data_to_predict |-> data,
                ethnicity_idxes |-> SortedUnique(data), done |-> 0, predictions |-> <<>>]

\* one pass of the loop: ethnicity_idx is bound, the slice of the group is
\* taken, the classifier predicts synth_data_to_predict, the counts of the
\* two classes are stored; when the predictions hold one class the slice and
\* ethnicity_idx stay bound and nothing is stored
PlotGroup ==
  /\ frame.cell = "plot"
  /\ frame.status = "running"
  /\ frame.done < Len(frame.ethnicity_idxes)
  /\ LET ethnicity_idx == frame.ethnicity_idxes[frame.done + 1]
         synth_data_to_predict_per_ethnicity ==
           Loc(frame.synth_data_to_predict,
               [i \in DOMAIN frame.synth_data_to_predict |->
                  frame.synth_data_to_predict[i].Ethnicity = ethnicity_idx])
         counted == UniqueCounts(frame.synth_data_to_predict)
     IN IF DOMAIN counted = {0, 1}
        THEN frame' = [done |-> frame.done + 1, ethnicity_idx |-> ethnicity_idx,
                       synth_data_to_predict_per_ethnicity |-> synth_data_to_predict_per_ethnicity,
                       predictions |->
                         [g \in {ethnicity_mapper_2_class[ethnicity_idx]} |-> counted]
                         @@ frame.predictions] @@ frame
        ELSE \* unique[1] is out of range
             frame' = [status |-> "failed", ethnicity_idx |-> ethnicity_idx,
                       synth_data_to_predict_per_ethnicity |-> synth_data_to_predict_per_ethnicity]
                      @@ frame
  /\ UNCHANGED Notebook

\* prediction_frequency_data is built from predictions
PlotFrequencies ==
  /\ frame.cell = "plot"
  /\ frame.status = "running"
  /\ frame.done = Len(frame.ethnicity_idxes)
  /\ frame' = [frame EXCEPT !.status = "done"]
  /\ UNCHANGED Notebook

----------------------------------------------------------------------------
(* Case Study 3, cell 024dd64d: the comparison table and its highlights     *)

\* the keys of eval_results, in the order the evaluation loop stored them
Plugins == <<"dpgan", "adsgan", "pategan">>

\* two of the rows of the evaluation tables
ComparedMetrics == {"detection.detection_xgb.mean", "privacy.k-map.score"}

\* the evaluation tables of the three generators: a mean for every metric
\* and generator, and the direction of every metric
EvalResults ==
  {[p \in {Plugins[i] : i \in DOMAIN Plugins} |->
      [m \in ComparedMetrics |-> [mean |-> mean[p][m], direction |-> direction[m]]]] :
     mean \in [{Plugins[i] : i \in DOMAIN Plugins} -> [ComparedMetrics -> 0..MaxScore]],
     direction \in [ComparedMetrics -> Directions]}

InitTable ==
  /\ NoRun
  /\ \E eval_results \in EvalResults :
       frame = [cell |-> "table", status |-> "running", eval_results |-> eval_results,
                means |-> <<>>, directions |-> Empty]

\* one pass of the loop over eval_results: data is the column of means of
\* the plugin, directions the directions of its table
CollectMeans ==
  /\ frame.cell = "table"
  /\ frame.status = "running"
  /\ Len(frame.means) < Len(Plugins)
  /\ LET plugin == Plugins[Len(frame.means) + 1]
         data == [m \in ComparedMetrics |-> frame.eval_results[plugin][m].mean]
         directions == [m \in ComparedMetrics |-> frame.eval_results[plugin][m].direction]
     IN frame' = [frame EXCEPT !.means = Append(@, data), !.directions = directions]
  /\ UNCHANGED Notebook

\* out = pd.concat(means, axis=1) with the plugins as column names;
\* out.style.apply(highlights, axis=1)
StyleTable ==
  /\ frame.cell = "table"
  /\ frame.status = "running"
  /\ Len(frame.means) = Len(Plugins)
  /\ LET out == [m \in ComparedMetrics |->
                  [p \in {Plugins[i] : i \in DOMAIN Plugins} |->
                     frame.means[CHOOSE i \in DOMAIN Plugins : Plugins[i] = p][m]]]
     IN frame' = [status |-> "done", out |-> out,
                  styles |-> [m \in ComparedMetrics |-> Highlights(out[m], frame.directions[m])]]
                 @@ frame
  /\ UNCHANGED Notebook

----------------------------------------------------------------------------
(* The data-preparation cells together *)

InitFrames ==
  \/ InitLabel
  \/ InitRecode
  \/ InitCond
  \/ InitFairness
  \/ InitAugmentation
  \/ InitMetrics
  \/ InitPlot
  \/ InitTable

NextFrames ==
  \/ \E n \in 1..3 : AssignLabel(n)
  \/ LabelAsInt
  \/ DropOutcome
  \/ Majority
  \/ Minority
  \/ CondEntry
  \/ SplitReal
  \/ LoadRealModel
  \/ ScoreReal
  \/ RealGroups
  \/ ScoreRealGroup
  \/ AugmentReal
  \/ LoadAugmentedModel
  \/ ScoreAugmented
  \/ AugmentedGroups
  \/ ScoreAugmentedGroup
  \/ RegionSplit
  \/ RegionTestSplit
  \/ LoadCentralWestModel
  \/ ScoreCentralWest
  \/ BaselineSplit
  \/ LoadBaselineModel
  \/ ScoreBaseline
  \/ AugmentRegion
  \/ AugmentedSplit
  \/ LoadRegionModel
  \/ ScoreRegion
  \/ SweepStart
  \/ SweepPass
  \/ SelectMetrics
  \/ EvaluateMetrics
  \/ DisplayMetrics
  \/ PlotGroup
  \/ PlotFrequencies
  \/ CollectMeans
  \/ StyleTable

SpecFrames == InitFrames /\ [][NextFrames]_vars

----------------------------------------------------------------------------
(* Properties *)

Last(seq) == seq[Len(seq)]

\* the operations of the log, in order
Ops(log) == [i \in 1..Len(log) |-> log[i].op]

\* the part of the log written by the statements of one cell
CellLog(k, cell) == SelectSeq(k.log, LAMBDA e : e.cell = cell)

\* the part of the log that creates, fits or loads a generator
Lifecycle(log) == SelectSeq(log, LAMBDA e : e.op \in {"create", "fit", "load"})

\* C1: every call of generate() is made on a generator that, earlier in the
\* same run, completed fit() or was loaded from a cache file; generate() is
\* never reached on a generator that was created and not fit.
C1_GenerateOnFitted ==
  (Running(kernel) /\ Cur(kernel).op = "generate") =>
    /\ Bound(kernel.ns, {"syn_model"})
    /\ Lifecycle(kernel.log) # <<>>
    /\ Last(Lifecycle(kernel.log)).op \in {"fit", "load"}
    /\ kernel.ns.syn_model.fitted

\* a generate() that returned on a generator loaded from its cache file
C1_Witness ==
  /\ kernel.log # <<>>
  /\ Last(kernel.log).op = "generate"
  /\ kernel.ns.syn_model.loaded

\* the load-or-fit cells: Case Study 2 ctgan and decaf, Case Study 4 radialgan
CacheCells == { [nb |-> 2, cell |-> 10], [nb |-> 2, cell |-> 19], [nb |-> 4, cell |-> 13] }

\* the statement that follows the last statement of a cell
CellEnd(c) ==
  1 + CHOOSE i \in 1..Len(Program(c.nb)) :
        /\ Program(c.nb)[i].cell = c.cell
        /\ \A j \in 1..Len(Program(c.nb)) : Program(c.nb)[j].cell = c.cell => j <= i

\* the kernel has just executed the last statement of cell c
LeftCell(k, c) == k.nb = c.nb /\ k.status = "running" /\ k.pc = CellEnd(c)

\* C2: a load-or-fit cell whose cache file exists only loads the generator
\* (no fit, no save); one whose file is absent creates the generator, fits
\* it and saves it, in that order; either way the cell ends with syn_model
\* bound to a fitted generator.
C2_SaveIfAbsent ==
  \A c \in CacheCells :
    LeftCell(kernel, c) =>
      /\ CellLog(kernel, c.cell) # <<>>
      /\ Ops(CellLog(kernel, c.cell)) =
           IF CellLog(kernel, c.cell)[1].res
           THEN <<"if_exists", "load">>
           ELSE <<"if_exists", "create", "fit", "save">>
      /\ Bound(kernel.ns, {"syn_model"})
      /\ kernel.ns.syn_model.fitted

\* a load-or-fit cell that found its cache file and loaded the generator
C2_Witness ==
  \E c \in CacheCells :
    /\ LeftCell(kernel, c)
    /\ CellLog(kernel, c.cell)[1].res
    /\ kernel.ns.syn_model.loaded

\* the generators the notebooks keep in cache files
Cached(site) == site[1] \in {2, 3, 4}

\* C3 as stated: over consecutive runs without a removed cache file or a
\* failed step, every generator of every notebook is fit at most once.
C3_Original ==
  clean => \A site \in DOMAIN fits : fits[site] <= 1

\* C3: over consecutive runs without a removed cache file or a failed step,
\* every generator of Case Studies 2, 3 and 4 is fit at most once, and a run
\* of such a notebook that follows a completed run of it performs no fit and
\* no save and loads the saved generator.
C3_FitOnce ==
  clean =>
    /\ \A site \in DOMAIN fits : Cached(site) => fits[site] <= 1
    /\ (kernel.status = "running" /\ kernel.nb \in completed /\ kernel.nb \in {2, 3, 4}) =>
         /\ \A i \in 1..Len(kernel.log) : kernel.log[i].op \notin {"create", "fit", "save"}
         /\ AtEnd(kernel) => \E i \in 1..Len(kernel.log) : kernel.log[i].op = "load"

\* a second run of a caching notebook reached its end without a failure
C3_Witness ==
  /\ clean
  /\ kernel.nb \in completed
  /\ kernel.nb \in {2, 3, 4}
  /\ kernel.status = "running"
  /\ AtEnd(kernel)
  /\ \E site \in DOMAIN fits : site[1] = kernel.nb /\ fits[site] = 1

----------------------------------------------------------------------------
(* Cache file names *)

\* the plugins whose generators the notebooks keep in cache files
PluginNames == {"ctgan", "decaf", "dpgan", "adsgan", "pategan", "radialgan"}

\* the pieces of a file name
Pieces(name) == {name[i] : i \in 1..Len(name)}

\* the file name carries a value for key
HasKey(name, key) == \E i \in 1..(Len(name) - 1) : name[i] = key

\* the value the file name carries for key
ValueOf(name, key) == name[1 + CHOOSE i \in 1..(Len(name) - 1) : name[i] = key]

\* the file names the run tested, wrote or read, and the files of saved_models/
FileNames ==
  (DOMAIN fs) \cup {kernel.log[i].file : i \in {j \in 1..Len(kernel.log) :
                                               kernel.log[j].op \in {"if_exists", "save", "load"}}}

\* the file name names the generator that a save or load event handled
NamesModel(e) == e.op \in {"save", "load"} => e.model \in Pieces(e.file)

\* C4 as stated: every cache file name written or read carries the model
\* name, an n_iter value and a seed value.
C4_Original ==
  /\ \A i \in 1..Len(kernel.log) : NamesModel(kernel.log[i])
  /\ \A f \in FileNames :
       /\ Pieces(f) \cap PluginNames # {}
       /\ HasKey(f, "_n_iter=")
       /\ HasKey(f, "_rnd=")

\* C4: every cache file name written or read carries the model name and a
\* seed value; it carries an n_iter value too, except the name of the ctgan
\* file of Case Study 2, which carries none.
C4_NameEncodes ==
  /\ \A i \in 1..Len(kernel.log) : NamesModel(kernel.log[i])
  /\ \A f \in FileNames :
       /\ Pieces(f) \cap PluginNames # {}
       /\ HasKey(f, "_rnd=")
       /\ HasKey(f, "_n_iter=") <=> "ctgan" \notin Pieces(f)

\* Case Study 2 read its ctgan file and its decaf file
C4_Witness ==
  /\ kernel.nb = 2
  /\ \E i, j \in 1..Len(kernel.log) :
       /\ kernel.log[i].op = "load" /\ kernel.log[i].model = "ctgan"
       /\ kernel.log[j].op = "load" /\ kernel.log[j].model = "decaf"
       /\ ~HasKey(kernel.log[i].file, "_n_iter=")
       /\ ValueOf(kernel.log[j].file, "_n_iter=") = "101"

\* C5: the model name, n_iter and seed in the name of a cache file are the
\* values the generator in the file was created with.
C5_NameMatchesCreation ==
  \A f \in DOMAIN fs :
    /\ fs[f].name \in Pieces(f)
    /\ HasKey(f, "_n_iter=") =>
         /\ "n_iter" \in DOMAIN fs[f].kwargs
         /\ Str(fs[f].kwargs.n_iter) = ValueOf(f, "_n_iter=")
    /\ HasKey(f, "_rnd=") =>
         /\ "random_state" \in DOMAIN fs[f].kwargs
         /\ Str(fs[f].kwargs.random_state) = ValueOf(f, "_rnd=")

----------------------------------------------------------------------------
(* The cache across runs *)

\* the statement just executed logged an operation op
Did(op) == Len(kernel'.log) > Len(kernel.log) /\ Last(kernel'.log).op = op

\* C6: a step of a run leaves every existing cache file in place with its
\* content, and fits no generator whose cache file exists, whatever the
\* content of the dataset files is.
C6_NoInvalidation ==
  [][kernel.status = "running" =>
       /\ \A f \in DOMAIN fs : f \in DOMAIN fs' /\ fs'[f] = fs[f]
       /\ Did("fit") => FileOf(kernel'.ns) \notin DOMAIN fs
       /\ Did("save") => FileOf(kernel'.ns) \notin DOMAIN fs]_vars

\* a run loaded a generator that was fit on another content of the dataset
\* than the one the run read
C6_Witness ==
  /\ kernel.log # <<>>
  /\ Last(kernel.log).op = "load"
  /\ Bound(kernel.ns, {"X", "syn_model"})
  /\ kernel.ns.X.data # kernel.ns.syn_model.data
  /\ fs[kernel.ns.save_file].data # dataVersion

----------------------------------------------------------------------------
(* Failures *)

\* C7: a statement that fails ends the run at that statement with its own
\* error: nothing is logged or written by it, the failed run executes no
\* further statement, and a run that goes on has no error.
C7_FailureEndsRun ==
  [][/\ (kernel.status = "running" /\ kernel'.status = "failed") =>
          /\ kernel'.pc = kernel.pc
          /\ kernel'.error = Cur(kernel).line
          /\ kernel'.log = kernel.log
          /\ kernel'.ns = kernel.ns
          /\ fs' = fs
     /\ kernel.status = "failed" => (kernel' \in {kernel, IdleKernel} /\ fs' = fs)
     /\ kernel'.status = "failed" <=> kernel'.error # 0]_vars

\* the evaluation of the second model of Case Study 3 failed
C7_Witness ==
  /\ kernel.status = "failed"
  /\ kernel.nb = 3
  /\ Cur(kernel).op = "evaluate"
  /\ kernel.error = 197
  /\ kernel.ns.model = "adsgan"
  /\ Last(kernel.log).op = "generate"

----------------------------------------------------------------------------
(* Saving *)

\* C8: save_to_file is reached only with a generator that was created and
\* fit by the statements before it, and every cache file holds a fitted
\* generator.
C8_SaveAfterFit ==
  /\ \A f \in DOMAIN fs : fs[f].fitted
  /\ (Running(kernel) /\ Cur(kernel).op = "save") =>
       /\ Bound(kernel.ns, {"syn_model"})
       /\ kernel.ns.syn_model.fitted
       /\ ~kernel.ns.syn_model.loaded
  /\ \A i \in 1..Len(kernel.log) :
       kernel.log[i].op = "save" =>
         /\ i > 2
         /\ kernel.log[i - 1].op = "fit"
         /\ kernel.log[i - 2].op = "create"

\* Case Study 3 has just saved the last of its three generators
C8_Witness ==
  /\ kernel.nb = 3
  /\ kernel.log # <<>>
  /\ Last(kernel.log).op = "save"
  /\ Cardinality(DOMAIN fs) >= 3

----------------------------------------------------------------------------
(* Order of the stages *)

\* the place of a stage in load, configure, fit, generate, evaluate, train, plot
Rank(stage) ==
  CASE stage = "none" -> 0
    [] stage = "load" -> 1
    [] stage = "configure" -> 2
    [] stage = "fit" -> 3
    [] stage = "generate" -> 4
    [] stage = "evaluate" -> 5
    [] stage = "train" -> 6
    [] stage = "plot" -> 7

\* a step within one run
SameRun == kernel.status = "running" /\ kernel'.status \in {"running", "failed"}

\* C9 as stated: within a run the stages are entered in the order load,
\* configure, fit, generate, evaluate, train, plot and none is entered again
\* after a later one.
C9_Original ==
  [][SameRun => Rank(kernel'.stage) >= Rank(kernel.stage)]_vars

\* C9: within a run the cells are entered top to bottom, none is entered
\* again after a later one, and the run goes back only to the for statement
\* of a loop of the cell it is in.
C9_CellsForward ==
  [][SameRun =>
       /\ kernel'.cell >= kernel.cell
       /\ kernel'.pc < kernel.pc =>
            /\ Program(kernel.nb)[kernel'.pc].op = "for"
            /\ Program(kernel.nb)[kernel'.pc].cell = kernel'.cell]_vars

\* Case Study 4 is back at a for statement of its sweep after a pass that
\* sampled, augmented, trained and scored
C9_Witness ==
  /\ kernel.nb = 4
  /\ Running(kernel)
  /\ Cur(kernel).op = "for"
  /\ kernel.pc \in DOMAIN kernel.iters
  /\ kernel.iters[kernel.pc] >= 1
  /\ kernel.stage \in {"evaluate", "train"}
  /\ Last(kernel.log).op = "generate"

----------------------------------------------------------------------------
(* Evaluation results *)

\* C10: two runs of a notebook from the same cache files, with the same
\* failures and different tables of scores and directions, perform the same
\* logged operations on the same models and files, are at the same statement
\* and leave the same cache files.
C10_ScoresNotControl ==
  /\ kernel.log = kernelS.log
  /\ kernel.pc = kernelS.pc
  /\ kernel.status = kernelS.status
  /\ kernel.error = kernelS.error
  /\ kernel.iters = kernelS.iters
  /\ fs = fsS

\* two runs of Case Study 3 ended with different evaluation results and
\* different highlights, the second with a best, a worst and a plain score
C10_Witness ==
  /\ kernel.nb = 3
  /\ kernel.status = "done"
  /\ kernelS.status = "done"
  /\ kernel.ns.eval_results # kernelS.ns.eval_results
  /\ kernel.ns.out # kernelS.ns.out
  /\ \E p \in DOMAIN kernelS.ns.out : kernelS.ns.out[p] = ""

----------------------------------------------------------------------------
(* The workflow *)

\* C11: in every job of the matrix, whatever cache files the checkout holds
\* and in whatever order the notebooks are run, no statement of a notebook
\* fails and the job gets to the end of the last cell of every notebook.
\* (Not settled: a job of SpecCI fails at line 793 of Case Study 2 when the
\* predictions hold a single class, which the sources do not decide.)
C11_JobsPass ==
  /\ [](kernel.status # "failed")
  /\ <>(ci.state = "passed")

\* a statement of a job fails only at line 793 of Case Study 2
CIFailsOnlyAtCounts == kernel.status = "failed" => (kernel.nb = 2 /\ kernel.error = 793)

\* every job comes to its end: it passes or it fails
CIJobsEnd == <>(ci.state \in {"passed", "failed"})

\* the Python 3.10 job on Windows is at the end of its last notebook, Case
\* Study 3, which had to fit its generators
C11_Witness ==
  /\ ci.state = "running"
  /\ ci.python = "3.10"
  /\ ci.os = "windows-latest"
  /\ ci.todo = {}
  /\ kernel.nb = 3
  /\ kernel.status = "running"
  /\ AtEnd(kernel)
  /\ \E i \in 1..Len(kernel.log) : kernel.log[i].op = "fit"
  /\ fs = SavedBy(Notebooks)

----------------------------------------------------------------------------
(* Preparing the data *)

\* C12: once the three assignments are applied, in any order, every record
\* has a label: 1 if it died within the time horizon, 0 otherwise; so the
\* conversion to int does not fail.
C12_TimeHorizonLabel ==
  frame.cell = "label" =>
    /\ frame.status # "failed"
    /\ Len(frame.applied) = 3 =>
         \A i \in DOMAIN frame.X :
           frame.X[i][Label] =
             IF frame.given[i].Days_hospital_to_outcome <= 14 /\ frame.given[i].is_dead = 1
             THEN 1 ELSE 0

\* a record that died on day 14 and one that died on day 15 are labelled 1
\* and 0 by the assignments applied in the order 3, 2, 1
C12_Witness ==
  /\ frame.cell = "label"
  /\ frame.status = "done"
  /\ frame.applied = <<3, 2, 1>>
  /\ Len(frame.X) = 2
  /\ frame.given[1].Days_hospital_to_outcome = 14 /\ frame.given[1].is_dead = 1
  /\ frame.given[2].Days_hospital_to_outcome = 15 /\ frame.given[2].is_dead = 1
  /\ frame.X[1][Label] = 1
  /\ frame.X[2][Label] = 0

\* C13: after the two assignments a record is 0 if its Ethnicity was 0 or 1
\* and 1 if it was 2, 3 or 4, and the second assignment selects no row
\* that the first one wrote.
C13_TwoClassEthnicity ==
  frame.cell = "recode" =>
    /\ frame.step = 1 =>
         \A j \in DOMAIN frame.majority : ~IsMinority(frame.X[frame.majority[j]])
    /\ frame.step = 2 =>
         \A i \in DOMAIN frame.X :
           /\ frame.X[i].Ethnicity = 0 <=> frame.given[i].Ethnicity \in {0, 1}
           /\ frame.X[i].Ethnicity = 1 <=> frame.given[i].Ethnicity \in {2, 3, 4}

\* a White record and an East Asian record were recoded to 0 and 1
C13_Witness ==
  /\ frame.cell = "recode"
  /\ frame.step = 2
  /\ Len(frame.X) = 2
  /\ frame.given[1].Ethnicity = 1 /\ frame.X[1].Ethnicity = 0
  /\ frame.given[2].Ethnicity = 3 /\ frame.X[2].Ethnicity = 1

\* C14: the finished condition vector has count entries, and each of the
\* labels 0..4 occurs in it the same number of times.
C14_EqualProportion ==
  (frame.cell = "cond" /\ frame.status = "done") =>
    /\ frame.cond.len = count
    /\ DOMAIN frame.cond.tally = 0..4
    /\ \A a, b \in 0..4 : frame.cond.tally[a] = frame.cond.tally[b]

\* the number of times a row occurs in a data frame
Occurrences(df, r) == Cardinality({i \in DOMAIN df : df[i] = r})

\* C15: the augmented dataset holds every record of X exactly once, every
\* generated record of Ethnicity 2, 3 or 4 exactly once, no generated record
\* of Ethnicity 0 or 1, and nothing else.
C15_AugmentMinorities ==
  (frame.cell = "fairness" /\ frame.step >= 6) =>
    /\ \A r \in Rows(frame.X) : Occurrences(frame.augmented_data, r) = 1
    /\ \A r \in Rows(frame.syn_data) :
         Occurrences(frame.augmented_data, r) = IF r.Ethnicity \in {2, 3, 4} THEN 1 ELSE 0
    /\ Rows(frame.augmented_data) \subseteq Rows(frame.X) \cup Rows(frame.syn_data)

\* two real records were augmented with the Black one of two generated
\* records, the other being White
C15_Witness ==
  /\ frame.cell = "fairness"
  /\ frame.step = 6
  /\ Len(frame.X) = 2
  /\ Len(frame.syn_data) = 2
  /\ frame.syn_data[1].Ethnicity = 1
  /\ frame.syn_data[2].Ethnicity = 2
  /\ Len(frame.augmented_data) = 3
  /\ frame.augmented_data[3] = frame.syn_data[2]

\* the records of a data frame that a row without its Region column can be
OriginsIn(df, r) == {i \in DOMAIN df : Drop(df[i], "Region") = r}

\* C16: in the concatenation baseline every training record is a record of
\* the all-regions dataset and every test record is a record of the
\* Central-West region (Region 0).
C16_BaselineSets ==
  (frame.cell = "augmentation" /\ frame.step = 5) =>
    /\ \A r \in frame.X_train : OriginsIn(frame.X, r) # {}
    /\ \A r \in frame.X_test :
         /\ OriginsIn(frame.X, r) # {}
         /\ \A i \in OriginsIn(frame.X, r) : frame.X[i].Region = 0

\* the baseline trains on a record of another region and on one of the
\* Central-West, and tests on the other Central-West record
C16_Witness ==
  /\ frame.cell = "augmentation"
  /\ frame.step = 5
  /\ Len(frame.X) = 3
  /\ Cardinality(frame.X_train) = 2
  /\ \E r \in frame.X_train : \E i \in OriginsIn(frame.X, r) : frame.X[i].Region = 3
  /\ \E r \in frame.X_train : \E i \in OriginsIn(frame.X, r) : frame.X[i].Region = 0
  /\ Cardinality(frame.X_test) = 1

\* C17: every metric evaluated is one that selected_metrics lists under its
\* category, and no category outside selected_metrics is evaluated.
C17_OnlySelectedMetrics ==
  (frame.cell = "metrics" /\ frame.step >= 2) =>
    \A m \in frame.evaluation :
      /\ m[1] \in DOMAIN selected_metrics
      /\ m[2] \in selected_metrics[m[1]]

\* C18: once the classifier that goes with the augmented dataset has scored
\* the real-data test split, no test record is among the records of the
\* augmented dataset, nor among the records a classifier that predicts the
\* test split was fit on.
C18_TestNotInTraining ==
  /\ (frame.cell = "fairness" /\ frame.step >= 8) =>
       frame.X_test \cap Rows(frame.augmented_data) = {}
  /\ (frame.cell = "augmentation" /\ frame.step >= 11) =>
       frame.X_test \cap Rows(frame.augmented_data) = {}
  /\ (frame.cell = "augmentation" /\ frame.step = 12 /\ frame.xgb_model.source = "fit") =>
       frame.X_test \cap frame.xgb_model.X = {}

\* the number of records of a group that the classifier puts in a class
GroupCount(df, idx, class) ==
  Cardinality({i \in DOMAIN df : df[i].Ethnicity = idx /\ df[i].predicted = class})

\* C19: the counts stored for an ethnicity group are the numbers of records
\* of that group that the classifier predicts as 0 and as 1.
C19_CountsPerGroup ==
  frame.cell = "plot" =>
    \A idx \in {0, 1} :
      ethnicity_mapper_2_class[idx] \in DOMAIN frame.predictions =>
        \A class \in DOMAIN frame.predictions[ethnicity_mapper_2_class[idx]] :
          frame.predictions[ethnicity_mapper_2_class[idx]][class] =
            GroupCount(frame.synth_data_to_predict, idx, class)

----------------------------------------------------------------------------
(* A fit that fails *)

\* C20: a fit that raises in a cache cell changes no file and leaves the
\* cache file of its generator absent; a cache file comes into being only by
\* the save that follows a fit that returned; the file stays absent until
\* the cell looks it up again, and that look-up leads to create, fit and
\* save, not to a load.
C20_FailedFitRetried ==
  /\ [](\A f \in unsaved : f \notin DOMAIN fs)
  /\ [][/\ (At("fit") /\ kernel'.status = "failed") =>
            /\ fs' = fs
            /\ FileOf(kernel.ns) \notin DOMAIN fs'
        /\ (kernel.status = "running" /\ DOMAIN fs' # DOMAIN fs) =>
            /\ Did("save")
            /\ kernel.log # <<>>
            /\ Last(kernel.log).op = "fit"
            /\ Last(kernel.log).res
        /\ (At("if_exists") /\ FileOf(kernel.ns) \in unsaved) =>
            /\ Running(kernel')
            /\ Cur(kernel').op = "create"
            /\ \E i \in (kernel'.pc + 1)..(kernel'.pc + 2) :
                 /\ Program(kernel.nb)[i].op = "fit"
                 /\ Program(kernel.nb)[i + 1].op = "save"
                 /\ Program(kernel.nb)[i + 1].cell = Cur(kernel).cell]_vars

\* the fit of Case Study 4 raised in the first run, and the second run is
\* about to look up the cache file of that generator
C20_Witness ==
  /\ runs = 2
  /\ kernel.nb = 4
  /\ At("if_exists")
  /\ FileOf(kernel.ns) \in unsaved
  /\ FileOf(kernel.ns) \notin DOMAIN fs

----------------------------------------------------------------------------
(* The comparison table *)

\* the best and the worst mean that the evaluation tables hold for a metric
BestOf(results, m) ==
  LET vals == {results[p][m].mean : p \in DOMAIN results}
      minimize == \A p \in DOMAIN results : results[p][m].direction = "minimize"
  IN  IF minimize THEN Min(vals) ELSE Max(vals)

WorstOf(results, m) ==
  LET vals == {results[p][m].mean : p \in DOMAIN results}
      minimize == \A p \in DOMAIN results : results[p][m].direction = "minimize"
  IN  IF minimize THEN Max(vals) ELSE Min(vals)

\* C21: in every row of the styled table a cell is green exactly when its
\* value is the best of the row and light coral exactly when it is the worst
\* and not the best, the best being the minimum for a metric to minimize and
\* the maximum otherwise; every row has a green cell.
C21_Highlights ==
  (frame.cell = "table" /\ frame.status = "done") =>
    \A m \in ComparedMetrics :
      /\ \A p \in DOMAIN frame.eval_results :
           /\ frame.styles[m][p] = "background-color: green;"
                <=> frame.eval_results[p][m].mean = BestOf(frame.eval_results, m)
           /\ frame.styles[m][p] = "background-color: lightcoral;"
                <=> /\ frame.eval_results[p][m].mean = WorstOf(frame.eval_results, m)
                    /\ frame.eval_results[p][m].mean # BestOf(frame.eval_results, m)
      /\ \E p \in DOMAIN frame.eval_results : frame.styles[m][p] = "background-color: green;"

\* a metric to minimize with the means 0, 1, 2 is green, plain, light coral;
\* a metric to maximize with three equal means is green in every cell
C21_Witness ==
  /\ frame.cell = "table"
  /\ frame.status = "done"
  /\ frame.directions["privacy.k-map.score"] = "minimize"
  /\ frame.out["privacy.k-map.score"] = [dpgan |-> 0, adsgan |-> 1, pategan |-> 2]
  /\ frame.styles["privacy.k-map.score"] =
       [dpgan |-> "background-color: green;", adsgan |-> "",
        pategan |-> "background-color: lightcoral;"]
  /\ frame.directions["detection.detection_xgb.mean"] = "maximize"
  /\ frame.out["detection.detection_xgb.mean"] = [dpgan |-> 1, adsgan |-> 1, pategan |-> 1]
  /\ \A p \in DOMAIN frame.eval_results :
       frame.styles["detection.detection_xgb.mean"][p] = "background-color: green;"

====
